---------------------------- MODULE Spec2Model ----------------------------
(***************************************************************************)
(* Model of the match engine of pvp-backend (src/server.js with the card   *)
(* catalogue of src/shared_cards.js): the authoritative state of one room, *)
(* the game:intent handler with its six intent types, the turn flow and    *)
(* the per-viewer snapshots.                                               *)
(*                                                                         *)
(* Conventions                                                             *)
(*  - a board slot, and every other nullable object reference, is a        *)
(*    sequence of length 0 (null) or 1 (the object);                       *)
(*  - a line of the board is the sequence of its five slots, slot i of the *)
(*    code at position i + 1;                                              *)
(*  - an instanceId is the pair <<role the card was created for, number>>; *)
(*  - multipliers and percentages of status effects are integers in        *)
(*    hundredths (1.25 is 125) and products are exact fractions that are   *)
(*    floored once, where the code floors; the doubles of the code floor   *)
(*    to the same whole number for the values used here (reductions 0.1    *)
(*    and 0.25, multipliers 1.2 and 1.25, amounts up to 1000), the capped  *)
(*    reduction of ModifiedDamage excepted;                                *)
(*  - statusEffects and shield, which ensureCardState creates on first use *)
(*    and every reader defaults to [] and 0, are present from the start.   *)
(***************************************************************************)
EXTENDS Integers, Sequences, FiniteSets, TLC

VARIABLES
    state,    \* room.state: the two player states, keyed by role
    match,    \* room.match: activeRole, round, turnCounter, drawnThisTurn, winner
    sync,     \* the last game:sync snapshot each participant received
    events,   \* the game:event messages emitted while the last intent was handled
    last,     \* the last intent handled: its sender and its outcome
    down,     \* the process was ended by an error thrown out of a handler
    players,  \* room.players: the participants present, each with role and user
    replies,  \* the messages the last handler emitted to the sender's socket alone
    redis,    \* lobby: the rooms list stored under ROOMS_KEY
    handlers, \* lobby: each set_ready handler's position and its private rooms copy
    emitted,  \* lobby: the match_start messages emitted, in order
    playings, \* lobby: how many times the stored room's status became 'playing'
    engine,   \* game_engine: match.state of the one match of the matches map
    answer    \* game_engine: what the last handleIntent call returned

vars == <<state, match, sync, events, last, down, players, replies,
          redis, handlers, emitted, playings, engine, answer>>

-----------------------------------------------------------------------------
(* Rules of the game: src/server.js 140-145, 231-232 *)

MAX_PI == 7
ATTACK_PA_COST == 2
MAX_CARD_PA == 11
END_TURN_PA_GAIN == 2
PLAYER_START_HP == 1000
PLAYER_DEF == 20
HAB_COST_PA == 3
ULT_COST_PA == 5
BOARD_SLOTS == 5
INITIAL_HAND == 5
DEFAULT_MAX_PA == 11

Roles == {"p1", "p2"}
NoRole == "none"
Slots == 0..(BOARD_SLOTS - 1)
EmptyLine == [k \in 1..BOARD_SLOTS |-> <<>>]

enemyRoleOf(role) == IF role = "p1" THEN "p2" ELSE "p1"
isValidLine(line) == line = "front" \/ line = "back"
isValidIndex(i) == i \in Int /\ i >= 0 /\ i < BOARD_SLOTS

Max(a, b) == IF a >= b THEN a ELSE b
Min(a, b) == IF a <= b THEN a ELSE b

(* F applied to the value of v: the steps of a loop are taken one after    *)
(* the other, each on the result of the one before.                       *)
Then(v, F(_)) == CHOOSE r \in {F(x) : x \in {v}} : TRUE

RECURSIVE SumSeq(_)
SumSeq(s) == IF s = <<>> THEN 0 ELSE Head(s) + SumSeq(Tail(s))

(* The board positions in the order every loop of the code visits them:   *)
(* front 0..4, then back 0..4.                                            *)
Positions ==
    [k \in 1..(2 * BOARD_SLOTS) |->
        [line  |-> IF k <= BOARD_SLOTS THEN "front" ELSE "back",
         index |-> (k - 1) % BOARD_SLOTS]]

SlotAt(ps, pos) == ps[pos.line][pos.index + 1]
SetSlot(ps, pos, v) == [ps EXCEPT ![pos.line] = [@ EXCEPT ![pos.index + 1] = v]]

(* The cards of a side's board, in loop order. *)
RECURSIVE BoardCardsFrom(_, _)
BoardCardsFrom(ps, k) ==
    IF k > 2 * BOARD_SLOTS THEN <<>>
    ELSE SlotAt(ps, Positions[k]) \o BoardCardsFrom(ps, k + 1)
BoardCards(ps) == BoardCardsFrom(ps, 1)

-----------------------------------------------------------------------------
(* The card catalogue: src/shared_cards.js 32-68.  The loop at 62-67      *)
(* clears effectType of every model, so no card carries one.              *)

Model(type, rarity, tribe, atk, def, maxHp, enterPA, piCost) ==
    [type |-> type, rarity |-> rarity, tribe |-> tribe, atk |-> atk, def |-> def,
     maxHp |-> maxHp, enterPA |-> enterPA, piCost |-> piCost, effectType |-> "null"]

CARD_DB ==
    [ L1  |-> Model("Melee",   "LEGENDARY", "Guerreiro",   100, 30, 400, 5, 5),
      L2  |-> Model("Ranged",  "LEGENDARY", "Arqueiro",     85, 20, 300, 5, 5),
      L3  |-> Model("Tank",    "LEGENDARY", "Berserks",     50, 40, 500, 5, 5),
      L4  |-> Model("Support", "LEGENDARY", "Curandeiros",  60, 15, 350, 5, 5),
      L5  |-> Model("Melee",   "LEGENDARY", "Bestiais",     90, 25, 480, 5, 5),
      L6  |-> Model("Tank",    "LEGENDARY", "Protetores",   50, 45, 600, 5, 5),
      L7  |-> Model("Support", "LEGENDARY", "Herdeiros",    60, 20, 400, 5, 5),
      L8  |-> Model("Melee",   "LEGENDARY", "Esqueletos",   95, 15, 400, 5, 5),
      L9  |-> Model("Melee",   "LEGENDARY", "Lanceiros",    80, 30, 400, 5, 5),
      L10 |-> Model("Tank",    "LEGENDARY", "Anonimos",     55, 35, 500, 5, 5),
      L11 |-> Model("Tank",    "LEGENDARY", "Pandistas",    55, 45, 550, 5, 5),
      L12 |-> Model("Support", "LEGENDARY", "Silvestres",   50, 15, 400, 5, 5),
      L13 |-> Model("Support", "LEGENDARY", "Invocadores",  60, 20, 400, 5, 5),
      L14 |-> Model("Support", "LEGENDARY", "Tecmagos",     60, 25, 400, 5, 5),
      L15 |-> Model("Ranged",  "LEGENDARY", "Magos",        80, 15, 400, 5, 5),
      L16 |-> Model("Melee",   "LEGENDARY", "Trevos",       80, 30, 450, 5, 5),
      L17 |-> Model("Ranged",  "LEGENDARY", "Bandidos",     75, 20, 400, 5, 5),
      L18 |-> Model("Ranged",  "LEGENDARY", "Vagantes",     85, 20, 480, 5, 5),
      L19 |-> Model("Support", "LEGENDARY", "Cronomantes",  60, 25, 450, 5, 5),
      E1  |-> Model("Support", "EPIC",      "Cronomantes",  60, 25, 450, 4, 4),
      R1  |-> Model("Ranged",  "RARE",      "Arqueiros",    70, 20, 300, 3, 3),
      C1  |-> Model("Melee",   "COMMON",    "Esqueletos",   40, 20, 100, 2, 2),
      U1  |-> Model("Utility", "UTILITY",   "Item",          0,  0,   0, 0, 1) ]

NoUses == [key |-> <<0, NoRole>>, skill |-> 0, ult |-> 0]

(* instantiateCard, with the owner that initGameForRoom sets right after. *)
instantiateCard(dbId, ownerRole, n) ==
    LET m == CARD_DB[dbId] IN
    [ instanceId         |-> <<ownerRole, n>>,
      dbId               |-> dbId,
      owner              |-> ownerRole,
      atk                |-> m.atk,
      def                |-> m.def,
      hp                 |-> m.maxHp,
      maxHp              |-> m.maxHp,
      pa                 |-> m.enterPA,
      maxPa              |-> DEFAULT_MAX_PA,
      shield             |-> 0,
      statusEffects      |-> <<>>,
      turnActionUses     |-> NoUses,
      controlReleaseTurn |-> 0,
      controlOrigin      |-> <<>>,
      controlledBy       |-> NoRole,
      controlImmune      |-> FALSE,
      controlMoved       |-> FALSE,
      isNecroSummon      |-> FALSE ]

TypeOf(card) == CARD_DB[card.dbId].type
TribeOf(card) == CARD_DB[card.dbId].tribe
RarityOf(card) == CARD_DB[card.dbId].rarity
PiCostOf(card) == CARD_DB[card.dbId].piCost
EffectTypeOf(card) == CARD_DB[card.dbId].effectType

createEmptyPlayerState ==
    [ playerHp    |-> PLAYER_START_HP,
      playerMaxHp |-> PLAYER_START_HP,
      playerDef   |-> PLAYER_DEF,
      hand        |-> <<>>,
      deck        |-> <<>>,
      back        |-> EmptyLine,
      front       |-> EmptyLine,
      graveyard   |-> <<>>,
      handCount   |-> 0,
      deckCount   |-> 0,
      pi          |-> MAX_PI,
      maxPi       |-> MAX_PI,
      teamEffects |-> <<>> ]

createNewGameState == [p1 |-> createEmptyPlayerState, p2 |-> createEmptyPlayerState]

-----------------------------------------------------------------------------
(* Status effect store: src/server.js 238-365.                             *)
(* An effect is a record with id, type, value, turnsLeft, meta and         *)
(* filters; a field of meta or filters that the code reads with ?. and ??  *)
(* is read with its default when absent.                                   *)

MetaFlag(e, f) == f \in DOMAIN e.meta /\ e.meta[f] = TRUE
MetaVal(e, f, dflt) == IF f \in DOMAIN e.meta THEN e.meta[f] ELSE dflt
OrOne(v) == IF v = 0 THEN 100 ELSE v       \* (e.value || 1), in hundredths

RECURSIVE ProdSeq(_)
ProdSeq(s) == IF s = <<>> THEN 1 ELSE Head(s) * ProdSeq(Tail(s))
RECURSIVE Pow100(_)
Pow100(n) == IF n = 0 THEN 1 ELSE 100 * Pow100(n - 1)

MapSeq(s, F(_)) == [k \in 1..Len(s) |-> F(s[k])]

getTeamEffects(ps, type) ==
    SelectSeq(ps.teamEffects, LAMBDA e : e.turnsLeft > 0 /\ (type = "" \/ e.type = type))

isSuppressed(rm, role) ==
    getTeamEffects(rm.state[role], "suppress_temp_effects") # <<>>

getActiveEffects(rm, card, type) ==
    LET suppressed == IF card.owner \in Roles THEN isSuppressed(rm, card.owner) ELSE FALSE
        live == SelectSeq(card.statusEffects, LAMBDA e : e.turnsLeft > 0)
        kept == IF suppressed
                THEN SelectSeq(live, LAMBDA e : MetaFlag(e, "ignoreSuppression")
                                                   \/ MetaFlag(e, "permanent"))
                ELSE live
    IN  IF type = "" THEN kept ELSE SelectSeq(kept, LAMBDA e : e.type = type)

getEffectiveDef(rm, card) ==
    IF getActiveEffects(rm, card, "def_override") # <<>> THEN 0 ELSE card.def

getEffectiveAtk(rm, card) ==
    LET flat == SumSeq(MapSeq(getActiveEffects(rm, card, "atk_flat"), LAMBDA e : e.value))
        missing == Max(0, card.maxHp - card.hp)
        missingBonus ==
            SumSeq(MapSeq(getActiveEffects(rm, card, "atk_missing_hp"),
                          LAMBDA e : (missing \div MetaVal(e, "perHp", 30))
                                         * MetaVal(e, "bonus", 10)))
        TribeCount(owner, tribe) ==
            Len(SelectSeq(BoardCards(rm.state[owner]),
                          LAMBDA c : CARD_DB[c.dbId].tribe = tribe))
        tribeBonus ==
            SumSeq(MapSeq(getActiveEffects(rm, card, "atk_per_tribe"),
                          LAMBDA e :
                              IF "tribe" \in DOMAIN e.meta
                              THEN TribeCount(MetaVal(e, "owner", card.owner), e.meta.tribe)
                                       * MetaVal(e, "per", e.value)
                              ELSE 0))
        factors ==
            MapSeq(getActiveEffects(rm, card, "atk_mult"), LAMBDA e : OrOne(e.value))
            \o MapSeq(getTeamEffects(rm.state[card.owner], "atk_mult"),
                      LAMBDA e : OrOne(e.value))
            \o MapSeq(getActiveEffects(rm, card, "atk_shield_mult"),
                      LAMBDA e : OrOne(e.value)
                                     + (card.shield \div MetaVal(e, "perShield", 20))
                                           * MetaVal(e, "bonusPct", 0))
            \o MapSeq(getActiveEffects(rm, card, "l16_dice"),
                      LAMBDA e : MetaVal(e, "atkMult", 100))
    IN  Max(0, ((card.atk + flat + missingBonus + tribeBonus) * ProdSeq(factors))
                   \div Pow100(Len(factors)))

(* The summed damage reduction, in hundredths, capped at 90. *)
getDamageReduction(rm, card) ==
    Min(90, Max(0, SumSeq(MapSeq(getActiveEffects(rm, card, "damage_reduction"),
                                 LAMBDA e : e.value))))

hasDamageImmunity(rm, card) == getActiveEffects(rm, card, "damage_immunity") # <<>>

(* The factors of the damage-taken multiplier, each in hundredths. *)
getDamageTakenMultiplier(rm, card) ==
    MapSeq(getActiveEffects(rm, card, "damage_taken_mult")
               \o getActiveEffects(rm, card, "l15_runa"),
           LAMBDA e : OrOne(e.value))

isPacifist(rm, card) == getActiveEffects(rm, card, "pacifist") # <<>>

addStatusEffect(card, effect) ==
    LET others == SelectSeq(card.statusEffects, LAMBDA e : e.id # effect.id) IN
    [card EXCEPT !.statusEffects = Append(others, effect),
                 !.shield = IF effect.type = "shield"
                            THEN Max(0, card.shield + effect.value) ELSE @]

(* removeStatusEffect, for the effect at position k of the card's list. *)
removeStatusEffect(card, k) ==
    LET effect == card.statusEffects[k] IN
    [card EXCEPT !.statusEffects =
                     SubSeq(@, 1, k - 1) \o SubSeq(@, k + 1, Len(@)),
                 !.shield = IF effect.type = "shield"
                            THEN Max(0, card.shield - effect.value) ELSE @]

addTeamEffect(ps, effect) ==
    [ps EXCEPT !.teamEffects =
        Append(SelectSeq(@, LAMBDA e : e.id # effect.id), effect)]

(* findCardPosition: the first board position of role holding instanceId,  *)
(* as a sequence of length 0 (null) or 1.                                  *)
findCardPosition(rm, role, instanceId) ==
    LET hits == SelectSeq(Positions,
                    LAMBDA pos : /\ SlotAt(rm.state[role], pos) # <<>>
                                 /\ SlotAt(rm.state[role], pos)[1].instanceId = instanceId)
    IN  IF hits = <<>> THEN <<>> ELSE <<hits[1]>>

frontHasAny(rm, role) == \E i \in Slots : rm.state[role].front[i + 1] # <<>>

(* canAttackBack with the back row open to every attacker. *)
canAttackBackAlways(attackerCard, rm, enemyRole) == TRUE

canAttackBack(attackerCard, rm, enemyRole) ==
    LET t == TypeOf(attackerCard) IN
    IF t = "Ranged" \/ t = "Support" THEN TRUE
    ELSE IF t = "Melee" \/ t = "Tank"
         THEN \/ getTeamEffects(rm.state[attackerCard.owner], "l18_backrow_access") # <<>>
              \/ ~frontHasAny(rm, enemyRole)
         ELSE FALSE

-----------------------------------------------------------------------------
(* Player damage and win detection: src/server.js 199-227 *)

PlayerHitDamage(rm, ownerRole, cardDamage) ==
    LET raw == cardDamage - rm.state[ownerRole].playerDef IN
    IF raw > 0 THEN raw ELSE 0

applyPlayerDamageFromCardHit(rm, ownerRole, cardDamage) ==
    LET finalDmg == PlayerHitDamage(rm, ownerRole, cardDamage) IN
    IF finalDmg > 0
    THEN [rm EXCEPT !.state[ownerRole].playerHp = Max(0, @ - finalDmg)]
    ELSE rm

(* checkGameOver looking at p1's health only. *)
checkGameOverOfP1(rm) ==
    IF rm.match.winner # NoRole THEN rm
    ELSE [rm EXCEPT !.match.winner = IF rm.state.p1.playerHp <= 0 THEN "p2" ELSE NoRole]

(* checkGameOver: records the winner in room.match once, p1's health      *)
(* looked at first and p2's second.                                       *)
checkGameOver(rm) ==
    IF rm.match.winner # NoRole THEN rm
    ELSE LET w1 == IF rm.state.p1.playerHp <= 0 THEN "p2" ELSE NoRole
             w2 == IF rm.state.p2.playerHp <= 0 THEN "p1" ELSE w1
         IN  [rm EXCEPT !.match.winner = w2]

(* A game:event message; the fields a type does not carry keep these values. *)
Ev(type, role) ==
    [type |-> type, role |-> role, winner |-> NoRole, loser |-> NoRole,
     deaths |-> <<>>, round |-> 0, isGameStart |-> FALSE,
     from |-> <<>>, to |-> <<>>, dmgToTarget |-> 0, dmgToAttacker |-> 0,
     playerDmgToEnemy |-> 0, playerDmgToMe |-> 0]

(* emitGameOver: the room after checkGameOver and the events it emits. *)
emitGameOver(rm) ==
    LET r == checkGameOver(rm) IN
    [rm  |-> r,
     evs |-> IF r.match.winner = NoRole THEN <<>>
             ELSE << [Ev("gameOver", NoRole) EXCEPT
                         !.winner = r.match.winner,
                         !.loser = IF r.match.winner = "p1" THEN "p2" ELSE "p1"] >>]

-----------------------------------------------------------------------------
(* Combat resolver: src/server.js 551-634.                                 *)
(* Operators that mutate the room return the room they leave behind.  The  *)
(* code holds cards by reference: after a step the object a handler still  *)
(* holds is the card in its slot while that slot holds the same instance,  *)
(* and a detached object (its copy lies in a graveyard) otherwise.         *)

Holds(rm, role, pos, instanceId) ==
    /\ SlotAt(rm.state[role], pos) # <<>>
    /\ SlotAt(rm.state[role], pos)[1].instanceId = instanceId

ObjNow(rm, role, pos, obj) ==
    IF Holds(rm, role, pos, obj.instanceId)
    THEN SlotAt(rm.state[role], pos)[1]
    ELSE [obj EXCEPT !.hp = 0]

(* Writes a change of the object to the board when the board still holds it. *)
PutObj(rm, role, pos, obj) ==
    IF Holds(rm, role, pos, obj.instanceId)
    THEN [rm EXCEPT !.state[role] = SetSlot(@, pos, <<obj>>)]
    ELSE rm

Death(role, pos, card) ==
    [role |-> role, line |-> pos.line, index |-> pos.index, instanceId |-> card.instanceId]

(* Bury with the card removed from its slot and put nowhere. *)
BuryLost(rm, role, pos, card) ==
    [rm EXCEPT !.state[role] = SetSlot(@, pos, <<>>)]

Bury(rm, role, pos, card) ==
    [rm EXCEPT !.state[role] =
        SetSlot([@ EXCEPT !.graveyard = Append(@, [card EXCEPT !.hp = 0])], pos, <<>>)]

(* applyDamageToCard.  amount is the fraction amtNum / amtDen.  The share  *)
(* moved to the skeletons is 20% of the damage; health is kept in whole    *)
(* points, which is exact whenever the damage is a multiple of 5.          *)
(* Result: the room, the damage that reached health, the deaths reported,  *)
(* and err when the call throws (the interceptor's position, looked up on  *)
(* the owner's board, is empty on the target side's board).                *)
NoDamage(rm) == [rm |-> rm, dmg |-> 0, deaths |-> <<>>, err |-> FALSE]

(* Lines 558-567: the position that takes the damage. *)
InterceptedPos(rm, target, targetPos) ==
    Then(getActiveEffects(rm, target, "intercept"), LAMBDA intercepts :
        IF intercepts = <<>> \/ "sourceInstanceId" \notin DOMAIN intercepts[1].meta
        THEN targetPos
        ELSE Then(findCardPosition(rm, target.owner, intercepts[1].meta.sourceInstanceId),
                  LAMBDA pos : IF pos = <<>> THEN targetPos ELSE pos[1]))

(* Lines 569-575: the damage after immunity, multipliers and reduction.    *)
(* Line 574 multiplies by (1 - reduction) in doubles.  With the reduction  *)
(* at its cap, 1 - 0.9 is 0.09999999999999998, below one tenth by one part *)
(* in 2^52: a product that is a whole number k >= 1 in exact arithmetic    *)
(* comes out just below k and Math.floor of line 575 gives k - 1.          *)
ModifiedDamage(rm, source, target, amtNum, amtDen) ==
    Then(getDamageTakenMultiplier(rm, target), LAMBDA factors :
    Then(getDamageReduction(rm, target), LAMBDA reduction :
    Then((IF isPacifist(rm, source) \/ hasDamageImmunity(rm, target)
          THEN 0 ELSE Max(0, amtNum)) * ProdSeq(factors) * (100 - reduction),
         LAMBDA num :
    Then(amtDen * Pow100(Len(factors)) * 100, LAMBDA den :
        Max(0, (num \div den)
                   - (IF reduction = 90 /\ num > 0 /\ num % den = 0 THEN 1 ELSE 0))))))

(* Lines 577-585: the skeletons that share the damage. *)
SkeletonsFor(rm, target, hit, skipRedirect) ==
    IF hit > 0 /\ ~skipRedirect
         /\ getActiveEffects(rm, target, "damage_redirect_skeletons") # <<>>
    THEN SelectSeq(BoardCards(rm.state[target.owner]),
                   LAMBDA c : c.instanceId # target.instanceId
                                  /\ TribeOf(c) = "Esqueletos")
    ELSE <<>>

(* LandDamage with the damage taken from the shield and, in full, from the *)
(* health as well.                                                         *)
LandDamageThroughShield(rm, targetRole, pos, target, landed) ==
    Then(IF landed > 0 /\ target.shield > 0 THEN Min(target.shield, landed) ELSE 0,
         LAMBDA absorbed :
    Then([target EXCEPT !.shield = @ - absorbed,
                        !.hp = IF landed > 0 THEN Max(0, @ - landed) ELSE @],
         LAMBDA hurt :
    Then(PutObj(rm, targetRole, pos, hurt), LAMBDA r :
        IF hurt.hp <= 0
        THEN [rm |-> Bury(r, targetRole, pos, hurt), dmg |-> landed - absorbed,
              deaths |-> <<Death(targetRole, pos, hurt)>>, err |-> FALSE]
        ELSE [rm |-> r, dmg |-> landed - absorbed, deaths |-> <<>>, err |-> FALSE])))

(* Lines 599-615: shield, health and death of the target object. *)
LandDamage(rm, targetRole, pos, target, landed) ==
    Then(IF landed > 0 /\ target.shield > 0 THEN Min(target.shield, landed) ELSE 0,
         LAMBDA absorbed :
    Then([target EXCEPT !.shield = @ - absorbed,
                        !.hp = IF landed - absorbed > 0
                               THEN Max(0, @ - (landed - absorbed)) ELSE @],
         LAMBDA hurt :
    Then(PutObj(rm, targetRole, pos, hurt), LAMBDA r :
        IF hurt.hp <= 0
        THEN [rm |-> Bury(r, targetRole, pos, hurt), dmg |-> landed - absorbed,
              deaths |-> <<Death(targetRole, pos, hurt)>>, err |-> FALSE]
        ELSE [rm |-> r, dmg |-> landed - absorbed, deaths |-> <<>>, err |-> FALSE])))

RECURSIVE applyDamageToCard(_, _, _, _, _, _, _)
RECURSIVE RedirectToSkeletons(_, _, _, _, _, _)

(* Lines 586-595: each skeleton takes its part, in board order. *)
RedirectToSkeletons(rm, source, owner, skeletons, num, den) ==
    IF skeletons = <<>> THEN [rm |-> rm, err |-> FALSE]
    ELSE Then(findCardPosition(rm, owner, Head(skeletons).instanceId), LAMBDA pos :
         Then(IF pos = <<>> THEN NoDamage(rm)
              ELSE applyDamageToCard(rm, source, owner, pos[1], num, den, TRUE),
              LAMBDA res :
             IF res.err THEN [rm |-> res.rm, err |-> TRUE]
             ELSE RedirectToSkeletons(res.rm, source, owner, Tail(skeletons), num, den)))

applyDamageToCard(rm, source, targetRole, targetPos, amtNum, amtDen, skipRedirect) ==
    Then(SlotAt(rm.state[targetRole], targetPos), LAMBDA slot0 :
    IF slot0 = <<>> THEN NoDamage(rm) ELSE
    Then(InterceptedPos(rm, slot0[1], targetPos), LAMBDA pos :
    Then(SlotAt(rm.state[targetRole], pos), LAMBDA slot :
    IF slot = <<>> THEN [NoDamage(rm) EXCEPT !.err = TRUE] ELSE
    Then(ModifiedDamage(rm, source, slot[1], amtNum, amtDen), LAMBDA hit :
    Then(SkeletonsFor(rm, slot[1], hit, skipRedirect), LAMBDA skeletons :
    Then(RedirectToSkeletons(rm, source, slot[1].owner, skeletons,
                             hit * 20, 100 * Len(skeletons)), LAMBDA red :
    IF red.err THEN [NoDamage(red.rm) EXCEPT !.err = TRUE] ELSE
    LandDamage(red.rm, targetRole, pos, ObjNow(red.rm, targetRole, pos, slot[1]),
               hit - (IF skeletons = <<>> THEN 0 ELSE (hit * 20) \div 100))))))))

(* handlePaSteal: the stolen action point and the spent guarantee, as the  *)
(* new values of the two objects.  rnd is Math.random() in hundredths.     *)
MaxChance(teamEffects) ==
    LET Chance(e) == IF "chance" \in DOMAIN e THEN e.chance ELSE 0 IN
    CHOOSE c \in {Chance(teamEffects[k]) : k \in 1..Len(teamEffects)} :
        \A k \in 1..Len(teamEffects) : Chance(teamEffects[k]) <= c

handlePaSteal(rm, source, targetCard, rnd) ==
    LET same == [source |-> source, targetCard |-> targetCard]
        removed == [targetCard EXCEPT !.pa = Max(0, @ - 1)]
    IN
    IF targetCard.pa <= 0 THEN same
    ELSE IF getActiveEffects(rm, source, "next_attack_steal_pa") # <<>>
         THEN [source |-> [source EXCEPT !.statusEffects =
                              SelectSeq(@, LAMBDA e : e.type # "next_attack_steal_pa")],
               targetCard |-> removed]
         ELSE Then(getTeamEffects(rm.state[source.owner], "pa_steal_on_damage"),
                   LAMBDA teamEffects :
                  IF teamEffects # <<>> /\ rnd < MaxChance(teamEffects)
                  THEN [same EXCEPT !.targetCard = removed]
                  ELSE same)

-----------------------------------------------------------------------------
(* Turn flow: src/server.js 431-539 and 1237-1285.                         *)

Val(e) == IF "value" \in DOMAIN e THEN e.value ELSE 0
IsPermanent(e) == MetaFlag(e, "permanent")

(* decrementStatusEffectsForRole, one card: the effects from position k on. *)
RECURSIVE DecrementCardFrom(_, _)
DecrementCardFrom(card, k) ==
    IF k > Len(card.statusEffects) THEN card
    ELSE LET e == card.statusEffects[k]
             left == Max(0, e.turnsLeft - 1)
         IN  IF IsPermanent(e) THEN DecrementCardFrom(card, k + 1)
             ELSE IF left <= 0
                  THEN DecrementCardFrom(removeStatusEffect(card, k), k)
                  ELSE DecrementCardFrom(
                           [card EXCEPT !.statusEffects[k].turnsLeft = left], k + 1)

DecrementTeamEffects(effects) ==
    LET dec == [k \in 1..Len(effects) |->
                   IF IsPermanent(effects[k]) THEN effects[k]
                   ELSE [effects[k] EXCEPT !.turnsLeft = Max(0, @ - 1)]]
    IN  SelectSeq(dec, LAMBDA e : IsPermanent(e) \/ e.turnsLeft > 0)

decrementStatusEffectsForRole(rm, role) ==
    LET ps == rm.state[role]
        Line(l) == [i \in 1..BOARD_SLOTS |->
                       IF ps[l][i] = <<>> THEN <<>>
                       ELSE <<DecrementCardFrom(ps[l][i][1], 1)>>]
    IN  [rm EXCEPT !.state[role] =
            [ps EXCEPT !.front = Line("front"), !.back = Line("back"),
                       !.teamEffects = DecrementTeamEffects(@)]]

(* applyStartTurnEffects.  The values of pa_bonus_start, pa_bonus_start_card *)
(* and infection are whole points; the value of hp_drain_pct is a fraction   *)
(* of maxHp, in hundredths.                                                  *)
RECURSIVE DrainEach(_, _)
DrainEach(card, effects) ==
    IF effects = <<>> THEN card
    ELSE DrainEach([card EXCEPT !.hp = Max(0, @ - (card.maxHp * Val(Head(effects))) \div 100)],
                   Tail(effects))

RECURSIVE InfectEach(_, _)
InfectEach(card, effects) ==
    IF effects = <<>> THEN card
    ELSE InfectEach([card EXCEPT !.hp = Max(0, @ - Val(Head(effects)))], Tail(effects))

StartTurnCard(rm, card, teamPaBonusValue) ==
    LET mine == SelectSeq(getActiveEffects(rm, card, "pa_bonus_start_card"),
                          LAMBDA e : "targetUid" \notin DOMAIN e.filters
                                         \/ e.filters.targetUid = card.instanceId)
    IN
    Then(teamPaBonusValue + SumSeq(MapSeq(mine, Val)), LAMBDA total :
    Then(IF total > 0 THEN [card EXCEPT !.pa = Min(card.maxPa, @ + total)] ELSE card,
         LAMBDA c1 :
    Then(DrainEach(c1, getActiveEffects(rm, c1, "hp_drain_pct")), LAMBDA c2 :
        InfectEach(c2, getActiveEffects(rm, c2, "infection")))))

applyStartTurnEffects(rm, role) ==
    LET ps == rm.state[role]
        teamPaBonusValue == SumSeq(MapSeq(getTeamEffects(ps, "pa_bonus_start"), Val))
        Line(l) == [i \in 1..BOARD_SLOTS |->
                       IF ps[l][i] = <<>> THEN <<>>
                       ELSE <<StartTurnCard(rm, ps[l][i][1], teamPaBonusValue)>>]
    IN  [rm EXCEPT !.state[role] = [ps EXCEPT !.front = Line("front"), !.back = Line("back")]]

(* cleanupDeadCards: the room and the deaths, slots visited in loop order. *)
RECURSIVE CleanupFrom(_, _, _)
CleanupFrom(rm, role, k) ==
    IF k > Len(Positions) THEN [rm |-> rm, deaths |-> <<>>]
    ELSE LET slot == SlotAt(rm.state[role], Positions[k]) IN
         IF slot # <<>> /\ slot[1].hp <= 0
         THEN Then(CleanupFrom(Bury(rm, role, Positions[k], slot[1]), role, k + 1),
                   LAMBDA rest :
                       [rm |-> rest.rm,
                        deaths |-> <<Death(role, Positions[k], slot[1])>> \o rest.deaths])
         ELSE CleanupFrom(rm, role, k + 1)

cleanupDeadCards(rm, role) == CleanupFrom(rm, role, 1)

(* handleControlRelease: a controlled card whose release turn has come     *)
(* goes back to the board of the side it was taken from.                   *)
FirstEmpty(ps) ==
    LET free == {k \in 1..Len(Positions) : SlotAt(ps, Positions[k]) = <<>>}
    IN  IF free = {} THEN <<>>
        ELSE <<Positions[CHOOSE k \in free : \A j \in free : k <= j]>>

(* ReleasePlace that never looks at the slot the card came from. *)
ReleasePlaceFirstEmpty(targetPs, origin) ==
    FirstEmpty(targetPs)

ReleasePlace(targetPs, origin) ==
    IF origin.pos # <<>> /\ SlotAt(targetPs, origin.pos[1]) = <<>>
    THEN origin.pos
    ELSE FirstEmpty(targetPs)

ReleaseAt(rm, role, pos) ==
    Then(SlotAt(rm.state[role], pos), LAMBDA slot :
    IF slot = <<>> \/ slot[1].controlReleaseTurn = 0 THEN rm
    ELSE IF rm.match.turnCounter < slot[1].controlReleaseTurn THEN rm
    ELSE
    Then([slot[1] EXCEPT !.controlReleaseTurn = 0, !.controlledBy = NoRole], LAMBDA freed :
    IF freed.controlOrigin = <<>>
    THEN [rm EXCEPT !.state[role] = SetSlot(@, pos, <<freed>>)]
    ELSE
    Then(freed.controlOrigin[1].owner, LAMBDA originalOwner :
    Then(ReleasePlace(rm.state[originalOwner], freed.controlOrigin[1]), LAMBDA place :
    IF place = <<>> THEN rm
    ELSE [[rm EXCEPT !.state[role] = SetSlot(@, pos, <<>>)]
             EXCEPT !.state[originalOwner] =
                 SetSlot(@, place[1],
                         <<[freed EXCEPT !.owner = originalOwner,
                                         !.controlMoved = FALSE]>>)]))))

RECURSIVE ReleaseFrom(_, _, _)
ReleaseFrom(rm, role, k) ==
    IF k > Len(Positions) THEN rm
    ELSE Then(ReleaseAt(rm, role, Positions[k]), LAMBDA r : ReleaseFrom(r, role, k + 1))

handleControlRelease(rm) ==
    Then(ReleaseFrom(rm, "p1", 1), LAMBDA r : ReleaseFrom(r, "p2", 1))

(* drawOne with the drawn card left on top of the deck. *)
drawOneKeepsDeck(rm, role) ==
    LET ps == rm.state[role] IN
    IF ps.deck = <<>> THEN [rm |-> rm, drew |-> FALSE]
    ELSE [rm |-> [rm EXCEPT !.state[role] =
                     [ps EXCEPT !.hand = Append(ps.hand, Head(ps.deck)),
                                !.handCount = Len(ps.hand) + 1]],
          drew |-> TRUE]

(* drawOne: the top card of the deck goes to the hand; drew tells whether *)
(* there was one.                                                         *)
drawOne(rm, role) ==
    LET ps == rm.state[role] IN
    IF ps.deck = <<>> THEN [rm |-> rm, drew |-> FALSE]
    ELSE [rm |-> [rm EXCEPT !.state[role] =
                     [ps EXCEPT !.deck = Tail(ps.deck),
                                !.hand = Append(ps.hand, Head(ps.deck)),
                                !.deckCount = Len(ps.deck) - 1,
                                !.handCount = Len(ps.hand) + 1]],
          drew |-> TRUE]

resetPIForBoth(rm) ==
    [rm EXCEPT !.state = [r \in Roles |-> [@[r] EXCEPT !.pi = MAX_PI, !.maxPi = MAX_PI]]]

(* gainPAOnBoard without the cap at maxPa. *)
gainPAOnBoardUncapped(rm, role, gain) ==
    LET ps == rm.state[role]
        Line(l) == [i \in 1..BOARD_SLOTS |->
                       IF ps[l][i] = <<>> THEN <<>>
                       ELSE <<[ps[l][i][1] EXCEPT !.pa = @ + gain]>>]
    IN  [rm EXCEPT !.state[role] = [ps EXCEPT !.front = Line("front"), !.back = Line("back")]]

gainPAOnBoard(rm, role, gain) ==
    LET ps == rm.state[role]
        Line(l) == [i \in 1..BOARD_SLOTS |->
                       IF ps[l][i] = <<>> THEN <<>>
                       ELSE <<[ps[l][i][1] EXCEPT !.pa = Min(ps[l][i][1].maxPa, @ + gain)]>>]
    IN  [rm EXCEPT !.state[role] = [ps EXCEPT !.front = Line("front"), !.back = Line("back")]]

(* startTurn without the assignment of the active side. *)
startTurnSameSide(rm, role, isGameStart) ==
    Then(handleControlRelease(rm), LAMBDA r0 :
    Then(applyStartTurnEffects(r0, role), LAMBDA r1 :
    Then(cleanupDeadCards(r1, role), LAMBDA cl :
    Then(decrementStatusEffectsForRole(cl.rm, role), LAMBDA r2 :
    Then(drawOne(r2, role), LAMBDA dr :
        [rm  |-> [dr.rm EXCEPT !.match.drawnThisTurn[role] = TRUE],
         evs |-> <<[Ev("turnStart", role) EXCEPT !.round = rm.match.round,
                                                  !.isGameStart = isGameStart]>>
                 \o (IF cl.deaths # <<>>
                     THEN <<[Ev("death", NoRole) EXCEPT !.deaths = cl.deaths]>> ELSE <<>>)
                 \o (IF dr.drew THEN <<Ev("draw", role)>> ELSE <<>>)])))))

(* startTurn that leaves the draw of the turn open. *)
startTurnDrawOpen(rm, role, isGameStart) ==
    Then(handleControlRelease(rm), LAMBDA r0 :
    Then(applyStartTurnEffects(r0, role), LAMBDA r1 :
    Then(cleanupDeadCards(r1, role), LAMBDA cl :
    Then(decrementStatusEffectsForRole(cl.rm, role), LAMBDA r2 :
    Then(drawOne([r2 EXCEPT !.match.activeRole = role], role), LAMBDA dr :
        [rm  |-> [dr.rm EXCEPT !.match.drawnThisTurn[role] = FALSE],
         evs |-> <<[Ev("turnStart", role) EXCEPT !.round = rm.match.round,
                                                  !.isGameStart = isGameStart]>>
                 \o (IF cl.deaths # <<>>
                     THEN <<[Ev("death", NoRole) EXCEPT !.deaths = cl.deaths]>> ELSE <<>>)
                 \o (IF dr.drew THEN <<Ev("draw", role)>> ELSE <<>>)])))))

(* startTurn with the timed effects decremented before they are applied. *)
startTurnDecrementFirst(rm, role, isGameStart) ==
    Then(handleControlRelease(rm), LAMBDA r0 :
    Then(decrementStatusEffectsForRole(r0, role), LAMBDA r1 :
    Then(applyStartTurnEffects(r1, role), LAMBDA r2 :
    Then(cleanupDeadCards(r2, role), LAMBDA cl :
    Then(drawOne([cl.rm EXCEPT !.match.activeRole = role], role), LAMBDA dr :
        [rm  |-> [dr.rm EXCEPT !.match.drawnThisTurn[role] = TRUE],
         evs |-> <<[Ev("turnStart", role) EXCEPT !.round = rm.match.round,
                                                  !.isGameStart = isGameStart]>>
                 \o (IF cl.deaths # <<>>
                     THEN <<[Ev("death", NoRole) EXCEPT !.deaths = cl.deaths]>> ELSE <<>>)
                 \o (IF dr.drew THEN <<Ev("draw", role)>> ELSE <<>>)])))))

(* startTurn: the room after the turn has started and the events emitted. *)
startTurn(rm, role, isGameStart) ==
    Then(handleControlRelease(rm), LAMBDA r0 :
    Then(applyStartTurnEffects(r0, role), LAMBDA r1 :
    Then(cleanupDeadCards(r1, role), LAMBDA cl :
    Then(decrementStatusEffectsForRole(cl.rm, role), LAMBDA r2 :
    Then(drawOne([r2 EXCEPT !.match.activeRole = role], role), LAMBDA dr :
        [rm  |-> [dr.rm EXCEPT !.match.drawnThisTurn[role] = TRUE],
         evs |-> <<[Ev("turnStart", role) EXCEPT !.round = rm.match.round,
                                                  !.isGameStart = isGameStart]>>
                 \o (IF cl.deaths # <<>>
                     THEN <<[Ev("death", NoRole) EXCEPT !.deaths = cl.deaths]>> ELSE <<>>)
                 \o (IF dr.drew THEN <<Ev("draw", role)>> ELSE <<>>)])))))

-----------------------------------------------------------------------------
(* Snapshots: src/server.js 1211-1235.                                     *)

(* JSON.parse(JSON.stringify(fullState)): a fresh structure built field by *)
(* field; every value of the state is a number, a string, a boolean, null, *)
(* a list or an object of those, which the round trip keeps.               *)
ClonePlayer(ps) ==
    [ playerHp    |-> ps.playerHp,
      playerMaxHp |-> ps.playerMaxHp,
      playerDef   |-> ps.playerDef,
      hand        |-> ps.hand,
      deck        |-> ps.deck,
      back        |-> ps.back,
      front       |-> ps.front,
      graveyard   |-> ps.graveyard,
      handCount   |-> ps.handCount,
      deckCount   |-> ps.deckCount,
      pi          |-> ps.pi,
      maxPi       |-> ps.maxPi,
      teamEffects |-> ps.teamEffects ]

JSONClone(fullState) == [p1 |-> ClonePlayer(fullState.p1), p2 |-> ClonePlayer(fullState.p2)]

(* redactStateForRole emptying the hand and leaving the deck. *)
redactHandOnly(fullState, viewerRole) ==
    LET enemyRole == IF viewerRole = "p1" THEN "p2" ELSE "p1" IN
    [full  |-> fullState,
     clone |-> [JSONClone(fullState) EXCEPT ![enemyRole].hand = <<>>]]

(* redactStateForRole writing to the state itself instead of a clone. *)
redactInPlace(fullState, viewerRole) ==
    LET enemyRole == IF viewerRole = "p1" THEN "p2" ELSE "p1"
        blanked == [fullState EXCEPT ![enemyRole].hand = <<>>, ![enemyRole].deck = <<>>]
    IN  [full |-> blanked, clone |-> blanked]

(* redactStateForRole: the snapshot, and the state the call leaves behind  *)
(* (it writes to the clone only).                                          *)
redactStateForRole(fullState, viewerRole) ==
    LET enemyRole == IF viewerRole = "p1" THEN "p2" ELSE "p1" IN
    [full  |-> fullState,
     clone |-> [JSONClone(fullState) EXCEPT ![enemyRole].hand = <<>>,
                                            ![enemyRole].deck = <<>>]]

(* sendSync: one game:sync message per participant, p1's first; sent is   *)
(* the last message each participant holds.                               *)
SyncTo(st, role) ==
    Then(redactStateForRole(st.rm.state, role), LAMBDA red :
        [rm |-> [st.rm EXCEPT !.state = red.full],
         sync |-> [st.sync EXCEPT ![role] =
                      <<[role |-> role, activeRole |-> st.rm.match.activeRole,
                         round |-> st.rm.match.round, state |-> red.clone]>>]])

sendSync(rm, sent) ==
    Then(SyncTo([rm |-> rm, sync |-> sent], "p1"), LAMBDA st : SyncTo(st, "p2"))

-----------------------------------------------------------------------------
(* Abilities: src/server.js 367-388 and 990-1033.                          *)

cardKey(rm, role) == <<rm.match.turnCounter, role>>

(* canUseAction without the limit. *)
canUseActionUnlimited(rm, card, actionType) ==
    LET key == cardKey(rm, card.owner)
        uses == IF card.turnActionUses.key # key
                THEN [key |-> key, skill |-> 0, ult |-> 0]
                ELSE card.turnActionUses
    IN  [card |-> [card EXCEPT !.turnActionUses =
                                   [uses EXCEPT ![actionType] = @ + 1]],
         ok |-> TRUE]

(* canUseAction: the card with its usage counter touched, and the answer. *)
canUseAction(rm, card, actionType) ==
    LET key == cardKey(rm, card.owner)
        uses == IF card.turnActionUses.key # key
                THEN [key |-> key, skill |-> 0, ult |-> 0]
                ELSE card.turnActionUses
        limit == IF card.dbId = "L11" /\ actionType = "skill" THEN 2 ELSE 1
    IN  IF uses[actionType] >= limit
        THEN [card |-> [card EXCEPT !.turnActionUses = uses], ok |-> FALSE]
        ELSE [card |-> [card EXCEPT !.turnActionUses =
                                        [uses EXCEPT ![actionType] = @ + 1]],
              ok |-> TRUE]

getActionCost(card, actionType) ==
    IF actionType = "skill" THEN (IF card.dbId = "L11" THEN 1 ELSE HAB_COST_PA)
    ELSE IF actionType = "ult" THEN (IF card.dbId = "L14" THEN 6 ELSE ULT_COST_PA)
    ELSE ATTACK_PA_COST

(* applyAction.  The condition of line 1019 reads targetCard, a const that *)
(* lives only in the block of lines 1001-1004: evaluating it raises a      *)
(* ReferenceError, so every call that gets past the checks of lines        *)
(* 992-1017 ends there, after canUseAction has counted the use and before  *)
(* any action point is spent or any effect is applied.                     *)
Drunk(rm, card) ==
    Then(getActiveEffects(rm, card, "damage_reduction"), LAMBDA effects :
        \E k \in 1..Len(effects) :
            Len(effects[k].id) > 0 /\ effects[k].id[1] = "l11_drunk")

applyAction(rm, role, from, target, actionType) ==
    Then(SlotAt(rm.state[role], from), LAMBDA slot :
    IF slot = <<>> THEN [rm |-> rm, ok |-> FALSE, reason |-> "no_card"] ELSE
    Then([slot[1] EXCEPT !.owner = role], LAMBDA source :
    Then([rm EXCEPT !.state[role] = SetSlot(@, from, <<source>>)], LAMBDA r0 :
    IF source.pa < getActionCost(source, actionType)
    THEN [rm |-> r0, ok |-> FALSE, reason |-> "no_pa"] ELSE
    Then(canUseAction(r0, source, actionType), LAMBDA use :
    Then([r0 EXCEPT !.state[role] = SetSlot(@, from, <<use.card>>)], LAMBDA r1 :
    IF ~use.ok THEN [rm |-> r1, ok |-> FALSE, reason |-> "cooldown"]
    ELSE IF actionType = "skill" /\ source.dbId = "L11" /\ Drunk(r1, use.card)
         THEN [rm |-> r1, ok |-> FALSE, reason |-> "blocked"]
    ELSE [rm |-> r1, ok |-> FALSE, reason |-> "ReferenceError"])))))

applyHab(rm, role, from, target) == applyAction(rm, role, from, target, "skill")
applyUlt(rm, role, from, target) == applyAction(rm, role, from, target, "ult")

-----------------------------------------------------------------------------
(* The game:intent handler: src/server.js 1390-1633.                       *)
(* A branch is an operator from the room and the snapshots sent so far to  *)
(* the room it leaves, the snapshots, the events emitted and the outcome:  *)
(* "ok" (applied and broadcast), "rejected" (an early return) or "threw".  *)

Outcome(rm, sent, evs, res) == [rm |-> rm, sync |-> sent, evs |-> evs, res |-> res]
Reject(rm, sent) == Outcome(rm, sent, <<>>, "rejected")
Broadcast(rm, sent, evs) ==
    Then(sendSync(rm, sent), LAMBDA s : Outcome(s.rm, s.sync, evs, "ok"))

(* endTurn without the check of the active side. *)
endTurnByAnyone(rm, sent, role) ==
    Then(gainPAOnBoard(rm, role, END_TURN_PA_GAIN), LAMBDA r1 :
    Then(IF role = "p2" THEN resetPIForBoth([r1 EXCEPT !.match.round = @ + 1]) ELSE r1,
         LAMBDA r2 :
    Then(startTurn([r2 EXCEPT !.match.turnCounter = @ + 1],
                   IF role = "p1" THEN "p2" ELSE "p1", FALSE), LAMBDA st :
        Broadcast(st.rm, sent, st.evs))))

(* endTurn with the round counted at the end of either side's turn. *)
endTurnRoundEachTurn(rm, sent, role) ==
    IF rm.match.activeRole # role THEN Reject(rm, sent) ELSE
    Then(gainPAOnBoard(rm, role, END_TURN_PA_GAIN), LAMBDA r1 :
    Then(IF role = "p2" THEN resetPIForBoth([r1 EXCEPT !.match.round = @ + 1])
         ELSE [r1 EXCEPT !.match.round = @ + 1],
         LAMBDA r2 :
    Then(startTurn([r2 EXCEPT !.match.turnCounter = @ + 1],
                   IF role = "p1" THEN "p2" ELSE "p1", FALSE), LAMBDA st :
        Broadcast(st.rm, sent, st.evs))))

(* endTurn that resets the pools whichever side ends its turn. *)
endTurnPoolsEachTurn(rm, sent, role) ==
    IF rm.match.activeRole # role THEN Reject(rm, sent) ELSE
    Then(gainPAOnBoard(rm, role, END_TURN_PA_GAIN), LAMBDA r1 :
    Then(IF role = "p2" THEN resetPIForBoth([r1 EXCEPT !.match.round = @ + 1])
         ELSE resetPIForBoth(r1),
         LAMBDA r2 :
    Then(startTurn([r2 EXCEPT !.match.turnCounter = @ + 1],
                   IF role = "p1" THEN "p2" ELSE "p1", FALSE), LAMBDA st :
        Broadcast(st.rm, sent, st.evs))))

endTurn(rm, sent, role) ==
    IF rm.match.activeRole # role THEN Reject(rm, sent) ELSE
    Then(gainPAOnBoard(rm, role, END_TURN_PA_GAIN), LAMBDA r1 :
    Then(IF role = "p2" THEN resetPIForBoth([r1 EXCEPT !.match.round = @ + 1]) ELSE r1,
         LAMBDA r2 :
    Then(startTurn([r2 EXCEPT !.match.turnCounter = @ + 1],
                   IF role = "p1" THEN "p2" ELSE "p1", FALSE), LAMBDA st :
        Broadcast(st.rm, sent, st.evs))))

drawCard(rm, sent, role) ==
    IF rm.match.activeRole # role THEN Reject(rm, sent)
    ELSE IF rm.match.drawnThisTurn[role] THEN Reject(rm, sent)
    ELSE Broadcast([drawOne(rm, role).rm EXCEPT !.match.drawnThisTurn[role] = TRUE],
                   sent, <<Ev("draw", role)>>)

playCard(rm, sent, role, line, index, handIndex) ==
    LET ps == rm.state[role]
        card == ps.hand[handIndex + 1]
        cost == PiCostOf(card)
        to == [line |-> line, index |-> index]
        played == SetSlot([ps EXCEPT !.pi = @ - cost,
                                     !.hand = SubSeq(ps.hand, 1, handIndex)
                                                  \o SubSeq(ps.hand, handIndex + 2, Len(ps.hand)),
                                     !.handCount = Len(ps.hand) - 1],
                          to, <<[card EXCEPT !.owner = role]>>)
    IN
    IF rm.match.activeRole # role THEN Reject(rm, sent)
    ELSE IF ~isValidLine(line) \/ ~isValidIndex(index) THEN Reject(rm, sent)
    ELSE IF handIndex < 0 THEN Reject(rm, sent)
    ELSE IF SlotAt(ps, to) # <<>> THEN Reject(rm, sent)
    ELSE IF handIndex >= Len(ps.hand) THEN Reject(rm, sent)
    ELSE IF ps.pi < cost THEN Reject(rm, sent)
    ELSE Broadcast([rm EXCEPT !.state[role] = played], sent,
                   <<[Ev("summon", role) EXCEPT !.to = <<to>>]>>)

(* useHab and useUlt: the target of the intent is validated and handed to  *)
(* applyAction; a result that is not ok is an early return, and the        *)
(* ReferenceError leaves the handler before anything is emitted.           *)
ValidTarget(target) ==
    IF target # <<>> /\ target[1].role \in Roles
           /\ isValidLine(target[1].pos.line) /\ isValidIndex(target[1].pos.index)
    THEN target ELSE <<>>

UseAction(rm, sent, role, from, target, actionType) ==
    IF rm.match.activeRole # role THEN Reject(rm, sent)
    ELSE IF ~isValidLine(from.line) \/ ~isValidIndex(from.index) THEN Reject(rm, sent)
    ELSE Then(IF actionType = "skill"
              THEN applyHab(rm, role, from, ValidTarget(target))
              ELSE applyUlt(rm, role, from, ValidTarget(target)), LAMBDA res :
             IF res.reason = "ReferenceError" THEN Outcome(res.rm, sent, <<>>, "threw")
             ELSE Reject(res.rm, sent))

useHab(rm, sent, role, from, target) == UseAction(rm, sent, role, from, target, "skill")
useUlt(rm, sent, role, from, target) == UseAction(rm, sent, role, from, target, "ult")


(* attack, lines 1525-1632.  The handler keeps the attacker and the target *)
(* objects it read at lines 1537-1538 while the resolver moves cards: a    *)
(* step of the exchange is a record of the room, the deaths collected, the *)
(* two objects (a the attacker, t the target), the amounts of the attack   *)
(* event, and err when a call has thrown.                                  *)
InDeaths(deaths, card) ==
    \E k \in 1..Len(deaths) : deaths[k].instanceId = card.instanceId

(* Lines 1549-1572: the action points are spent and the damage is dealt to *)
(* the target, or reflected to the attacker.                               *)
Strike(r0, role, from, to) ==
    Then([SlotAt(r0.state[role], from)[1] EXCEPT !.pa = @ - ATTACK_PA_COST],
         LAMBDA attacker :
    Then(SlotAt(r0.state[enemyRoleOf(role)], to)[1], LAMBDA target :
    Then([r0 EXCEPT !.state[role] = SetSlot(@, from, <<attacker>>)], LAMBDA r1 :
    Then(getEffectiveAtk(r1, attacker) - getEffectiveDef(r1, target), LAMBDA raw :
    Then(IF raw > 0
         THEN applyDamageToCard(r1, attacker, enemyRoleOf(role), to, raw, 1, FALSE)
         ELSE IF raw < 0
              THEN applyDamageToCard(r1, target, role, from, 0 - raw, 1, TRUE)
              ELSE NoDamage(r1), LAMBDA hit :
    Then(IF raw > 0 THEN enemyRoleOf(role) ELSE role, LAMBDA hurt :
    Then(IF hit.dmg > 0 THEN PlayerHitDamage(hit.rm, hurt, hit.dmg) ELSE 0,
         LAMBDA playerDmg :
        [rm |-> IF hit.dmg > 0
                THEN applyPlayerDamageFromCardHit(hit.rm, hurt, hit.dmg)
                ELSE hit.rm,
         deaths |-> hit.deaths,
         err |-> hit.err,
         a |-> attacker,
         t |-> target,
         dmgToTarget |-> IF raw > 0 THEN hit.dmg ELSE 0,
         dmgToAttacker |-> IF raw < 0 THEN hit.dmg ELSE 0,
         playerDmgToEnemy |-> IF raw > 0 THEN playerDmg ELSE 0,
         playerDmgToMe |-> IF raw < 0 THEN playerDmg ELSE 0])))))))

(* Lines 1574-1584: a card of the exchange that is at 0 health and that    *)
(* the resolver did not report is buried by the handler.                   *)
BuryUnreported(st, role, pos, obj) ==
    Then(ObjNow(st.rm, role, pos, obj), LAMBDA now :
        IF now.hp <= 0 /\ ~InDeaths(st.deaths, now)
        THEN [st EXCEPT !.rm = Bury(st.rm, role, pos, now),
                        !.deaths = Append(@, Death(role, pos, now))]
        ELSE st)

(* Lines 1586-1588, and the two objects as they are from here on. *)
StealPa(st, role, from, to, rnd) ==
    Then(ObjNow(st.rm, role, from, st.a), LAMBDA a :
    Then(ObjNow(st.rm, enemyRoleOf(role), to, st.t), LAMBDA t :
        IF st.dmgToTarget > 0
        THEN Then(handlePaSteal(st.rm, a, t, rnd), LAMBDA steal :
                 [st EXCEPT !.rm = PutObj(PutObj(st.rm, role, from, steal.source),
                                          enemyRoleOf(role), to, steal.targetCard),
                            !.a = steal.source,
                            !.t = steal.targetCard])
        ELSE [st EXCEPT !.a = a, !.t = t]))

(* Lines 1590-1592. *)
L10Shield(st, role, from, now) ==
    IF st.a.dbId = "L10" /\ getActiveEffects(st.rm, st.a, "l10_skill_active") # <<>>
    THEN Then(addStatusEffect(st.a, [id |-> <<"l10_skill_shield", st.a.instanceId, now>>,
                                     sourceDbId |-> st.a.dbId, type |-> "shield",
                                     value |-> 20, turnsLeft |-> 3,
                                     filters |-> [none |-> TRUE], meta |-> [none |-> TRUE]]),
              LAMBDA a : [st EXCEPT !.rm = PutObj(st.rm, role, from, a), !.a = a])
    ELSE st

(* Damage to each card of a list of positions in turn (the L-12 spread    *)
(* and the L-9 spill), deaths collected.                                  *)
RECURSIVE SplashEach(_, _, _, _, _)
SplashEach(st, source, enemy, places, amount) ==
    IF places = <<>> \/ st.err THEN st
    ELSE Then(IF SlotAt(st.rm.state[enemy], Head(places)) = <<>>
              THEN NoDamage(st.rm)
              ELSE applyDamageToCard(st.rm, source, enemy, Head(places), amount, 1, FALSE),
              LAMBDA res :
         Then([st EXCEPT !.rm = res.rm, !.deaths = @ \o res.deaths, !.err = res.err],
              LAMBDA s : SplashEach(s, source, enemy, Tail(places), amount)))

(* Lines 1594-1604. *)
L12Spread(st, role) ==
    IF st.a.dbId = "L12" /\ st.dmgToTarget > 0
         /\ getActiveEffects(st.rm, st.t, "infection") # <<>>
    THEN SplashEach(st, st.a, enemyRoleOf(role),
                    SelectSeq(Positions, LAMBDA p :
                        /\ SlotAt(st.rm.state[enemyRoleOf(role)], p) # <<>>
                        /\ getActiveEffects(st.rm, SlotAt(st.rm.state[enemyRoleOf(role)], p)[1],
                                            "infection") # <<>>),
                    st.dmgToTarget \div 2)
    ELSE st

(* Lines 1606-1615. *)
L9Spill(st, role, to) ==
    IF st.a.dbId = "L9" /\ getActiveEffects(st.rm, st.a, "l9_spill") # <<>>
         /\ st.dmgToTarget > 0 /\ to.line = "front"
    THEN SplashEach(st, st.a, enemyRoleOf(role),
                    SelectSeq(Positions, LAMBDA p : p.line = "back"),
                    (st.dmgToTarget * 30) \div 100)
    ELSE st

(* Lines 1617-1624. *)
L5Heal(st, role, from, to) ==
    Then(getActiveEffects(st.rm, ObjNow(st.rm, enemyRoleOf(role), to, st.t), "l5_mark"),
         LAMBDA marks :
        IF st.dmgToTarget > 0
             /\ \E k \in 1..Len(marks) : MetaVal(marks[k], "sourceOwner", NoRole) = role
        THEN Then(ObjNow(st.rm, role, from, st.a), LAMBDA a :
                 [st EXCEPT !.rm = PutObj(st.rm, role, from,
                                      [a EXCEPT !.hp = Min(a.maxHp,
                                                    @ + (st.dmgToTarget * 20) \div 100)])])
        ELSE st)

(* Lines 1549-1624, a throw ending the exchange where it happens. *)
Exchange(r0, role, from, to, rnd, now) ==
    Then(Strike(r0, role, from, to), LAMBDA s1 :
    IF s1.err THEN s1 ELSE
    Then(BuryUnreported(s1, role, from, s1.a), LAMBDA s2 :
    Then(BuryUnreported(s2, enemyRoleOf(role), to, s2.t), LAMBDA s3 :
    Then(StealPa(s3, role, from, to, rnd), LAMBDA s4 :
    Then(L10Shield(s4, role, from, now), LAMBDA s5 :
    Then(L12Spread(s5, role), LAMBDA s6 :
    IF s6.err THEN s6 ELSE
    Then(L9Spill(s6, role, to), LAMBDA s7 :
    IF s7.err THEN s7 ELSE L5Heal(s7, role, from, to))))))))

(* Lines 1626-1627. *)
AttackEvents(st, role, from, to) ==
    <<[Ev("attack", role) EXCEPT
           !.from = <<from>>, !.to = <<to>>,
           !.dmgToTarget = st.dmgToTarget, !.dmgToAttacker = st.dmgToAttacker,
           !.playerDmgToEnemy = st.playerDmgToEnemy,
           !.playerDmgToMe = st.playerDmgToMe]>>
        \o (IF st.deaths # <<>>
            THEN <<[Ev("death", NoRole) EXCEPT !.deaths = st.deaths]>> ELSE <<>>)

attack(rm, sent, role, from, to, rnd, now) ==
    IF rm.match.activeRole # role THEN Reject(rm, sent)
    ELSE IF ~isValidLine(from.line) \/ ~isValidIndex(from.index) THEN Reject(rm, sent)
    ELSE IF ~isValidLine(to.line) \/ ~isValidIndex(to.index) THEN Reject(rm, sent)
    ELSE IF SlotAt(rm.state[role], from) = <<>>
              \/ SlotAt(rm.state[enemyRoleOf(role)], to) = <<>>
         THEN Reject(rm, sent)
    ELSE
    Then([SlotAt(rm.state[role], from)[1] EXCEPT !.owner = role], LAMBDA attacker :
    Then([rm EXCEPT !.state[role] = SetSlot(@, from, <<attacker>>)], LAMBDA r0 :
    IF attacker.pa < ATTACK_PA_COST THEN Reject(r0, sent)
    ELSE IF to.line = "back" /\ ~canAttackBack(attacker, r0, enemyRoleOf(role))
         THEN Reject(r0, sent)
    ELSE
    Then(Exchange(r0, role, from, to, rnd, now), LAMBDA st :
    IF st.err THEN Outcome(st.rm, sent, <<>>, "threw") ELSE
    Then(emitGameOver(st.rm), LAMBDA over :
        Broadcast(over.rm, sent, AttackEvents(st, role, from, to) \o over.evs)))))

(* The handler without the check of line 1393. *)
gameIntentAfterWinner(rm, sent, role, intent, rnd, now) ==
    CASE intent.type = "endTurn"  -> endTurn(rm, sent, role)
      [] intent.type = "drawCard" -> drawCard(rm, sent, role)
      [] intent.type = "playCard" ->
             playCard(rm, sent, role, intent.line, intent.index, intent.handIndex)
      [] intent.type = "useHab"   -> useHab(rm, sent, role, intent.from, intent.target)
      [] intent.type = "useUlt"   -> useUlt(rm, sent, role, intent.from, intent.target)
      [] intent.type = "attack"   ->
             attack(rm, sent, role, intent.from, intent.to, rnd, now)
      [] OTHER -> Reject(rm, sent)

(* The handler: nothing is touched once a winner is recorded (line 1393),  *)
(* and an intent of a type no branch names falls out of the handler.       *)
gameIntent(rm, sent, role, intent, rnd, now) ==
    IF rm.match.winner # NoRole THEN Reject(rm, sent)
    ELSE CASE intent.type = "endTurn"  -> endTurn(rm, sent, role)
           [] intent.type = "drawCard" -> drawCard(rm, sent, role)
           [] intent.type = "playCard" ->
                  playCard(rm, sent, role, intent.line, intent.index, intent.handIndex)
           [] intent.type = "useHab"   -> useHab(rm, sent, role, intent.from, intent.target)
           [] intent.type = "useUlt"   -> useUlt(rm, sent, role, intent.from, intent.target)
           [] intent.type = "attack"   ->
                  attack(rm, sent, role, intent.from, intent.to, rnd, now)
           [] OTHER -> Reject(rm, sent)

-----------------------------------------------------------------------------
(* Match start: src/server.js 1287-1325 and 1380-1384.                     *)

MaxTurns == 2          \* turns explored after the first state of a match
MaxIndex == 0          \* board columns 0..MaxIndex are used by the intents
MaxHandIndex == 0      \* hand positions 0..MaxHandIndex are used by playCard
MaxShield == 40        \* the shield is granted below this total

(* The deck lists of the two accounts in the orders shuffleInPlace may     *)
(* leave them; each passes validateDeck (5 to 50 cards, copies within the  *)
(* limits of the rarities).                                                *)
DeckOrders ==
    [p1 |-> { <<"C1", "L1", "U1", "R1", "C1", "L6">>,
              <<"U1", "R1", "C1", "L1", "L6", "C1">> },
     p2 |-> { <<"L6", "C1", "U1", "R1", "L2", "C1">> }]

buildDeck(order, role) == [k \in 1..Len(order) |-> instantiateCard(order[k], role, k)]

(* initGameForRoom for the participants pls, in the order of room.players; *)
(* orders gives the deck of each user as shuffleInPlace leaves it.  Each   *)
(* participant's cards go to the side of its role.                         *)
initGameForPlayers(pls, orders) ==
    LET Deal(role, order) ==
            LET deckInstances == buildDeck(order, role)
                n == Min(INITIAL_HAND, Len(deckInstances))
            IN  [createEmptyPlayerState EXCEPT
                     !.hand = SubSeq(deckInstances, 1, n),
                     !.deck = SubSeq(deckInstances, n + 1, Len(deckInstances)),
                     !.handCount = n,
                     !.deckCount = Len(deckInstances) - n,
                     !.pi = MAX_PI, !.maxPi = MAX_PI]
        RECURSIVE Fill(_, _)
        Fill(st, k) ==
            IF k > Len(pls) THEN st
            ELSE Fill([st EXCEPT ![pls[k].role] = Deal(pls[k].role, orders[pls[k].user])],
                      k + 1)
        rm == [state |-> Fill(createNewGameState, 1),
               match |-> [activeRole |-> "p1", round |-> 1, turnCounter |-> 1,
                          drawnThisTurn |-> [p1 |-> FALSE, p2 |-> FALSE],
                          winner |-> NoRole]]
    IN  startTurn(rm, "p1", TRUE)

(* The participants of a room that has filled: the first to join is p1,    *)
(* the second p2 (line 1366).                                              *)
RoomPlayers == <<[role |-> "p1", user |-> "u1"], [role |-> "p2", user |-> "u2"]>>

initGameForRoom(order1, order2) ==
    initGameForPlayers(RoomPlayers, [u1 |-> order1, u2 |-> order2])

NoSync == [r \in Roles |-> <<>>]

(* rooms:join of the second participant: the match is set up and the first *)
(* snapshots are sent.                                                     *)
MatchStart(order1, order2) ==
    Then(initGameForRoom(order1, order2), LAMBDA g : Broadcast(g.rm, NoSync, g.evs))

-----------------------------------------------------------------------------
(* A match in its ninth turn.  The two participants of this room hold the  *)
(* decks LateOrders after the shuffle; the intents below are handled one   *)
(* after the other from the start of the match, each by the handler, and   *)
(* each is accepted.  p1 plays the first card of its hand and attacks with *)
(* what it has on the board, the card of its second column excepted; p2    *)
(* only plays cards.  At the end p2 is left with 35 health and p1, active, *)
(* still holds an attack with the card in its first column.                *)

LateOrders ==
    [p1 |-> <<"L1", "C1", "L8", "C1", "L5", "C1", "R1", "R1", "U1", "E1">>,
     p2 |-> <<"L12", "C1", "L8", "C1", "L4", "C1", "R1", "R1", "E1", "U1", "U1">>]

Front(i) == [line |-> "front", index |-> i]
Back(i) == [line |-> "back", index |-> i]
PlayAt(pos) == [type |-> "playCard", line |-> pos.line, index |-> pos.index, handIndex |-> 0]
Hit(from, to) == [type |-> "attack", from |-> from, to |-> to]
EndOfTurn == [type |-> "endTurn"]

RECURSIVE Replay(_, _, _)
Replay(o, role, intents) ==
    IF intents = <<>> THEN o
    ELSE Then(gameIntent(o.rm, o.sync, role, Head(intents), 0, 0),
              LAMBDA n : Replay(n, role, Tail(intents)))

LateMatch ==
    Replay(Replay(Replay(Replay(Replay(Replay(Replay(Replay(Replay(
        MatchStart(LateOrders.p1, LateOrders.p2),
        "p1", << PlayAt(Front(0)), PlayAt(Front(1)), EndOfTurn >>),
        "p2", << PlayAt(Front(0)), PlayAt(Front(1)), EndOfTurn >>),
        "p1", << PlayAt(Front(2)), PlayAt(Front(3)), Hit(Front(0), Front(0)),
                 Hit(Front(0), Front(0)), Hit(Front(0), Front(0)), Hit(Front(2), Front(0)),
                 Hit(Front(2), Front(0)), Hit(Front(3), Front(1)), EndOfTurn >>),
        "p2", << PlayAt(Front(0)), PlayAt(Front(2)), EndOfTurn >>),
        "p1", << PlayAt(Front(4)), PlayAt(Back(0)), Hit(Front(0), Front(0)),
                 Hit(Front(2), Front(0)), Hit(Front(3), Front(0)),
                 Hit(Front(4), Front(0)), Hit(Front(4), Front(0)), Hit(Back(0), Front(0)),
                 EndOfTurn >>),
        "p2", << PlayAt(Front(3)), PlayAt(Front(4)), EndOfTurn >>),
        "p1", << PlayAt(Back(1)), PlayAt(Back(2)), PlayAt(Back(3)),
                 Hit(Front(0), Front(0)), Hit(Front(2), Front(1)),
                 Hit(Front(3), Front(2)), Hit(Front(4), Front(2)), Hit(Back(0), Front(2)),
                 Hit(Back(1), Front(3)), Hit(Back(2), Front(3)), EndOfTurn >>),
        "p2", << PlayAt(Front(0)), PlayAt(Front(2)), EndOfTurn >>),
        "p1", << PlayAt(Back(3)), Hit(Front(2), Front(0)), Hit(Front(3), Front(0)),
                 Hit(Front(4), Front(0)), Hit(Back(1), Front(0)), Hit(Back(2), Front(0)) >>)

-----------------------------------------------------------------------------
(* A room starts where the second participant has joined, at the start of  *)
(* a match or in the match above.                                          *)

Started(o, role) ==
    /\ state = o.rm.state
    /\ match = o.rm.match
    /\ sync = o.sync
    /\ events = o.evs
    /\ last = [role |-> role, res |-> o.res]
    /\ down = FALSE
    /\ players = RoomPlayers
    /\ replies = <<>>
    /\ redis = <<>>
    /\ handlers = <<>>
    /\ emitted = <<>>
    /\ playings = 0
    /\ engine = <<>>
    /\ answer = <<>>

Init ==
    \/ \E order1 \in DeckOrders.p1, order2 \in DeckOrders.p2 :
           Started(MatchStart(order1, order2), "p2")
    \/ Started(LateMatch, "p1")

-----------------------------------------------------------------------------
(* The intents.  Positions and hand indexes come from the columns in use   *)
(* plus one that isValidIndex refuses and a line that isValidLine refuses. *)

PosInputs ==
    {[line |-> l, index |-> i] : l \in {"front", "back"}, i \in 0..MaxIndex}
        \cup {[line |-> "mid", index |-> 0], [line |-> "front", index |-> BOARD_SLOTS]}
HandInputs == (0 - 1)..MaxHandIndex
TargetInputs ==
    {<<>>, <<[role |-> "p2", pos |-> [line |-> "front", index |-> 0]]>>,
     <<[role |-> "p2", pos |-> [line |-> "mid", index |-> 0]]>>}
RandomDraws == {5, 50}     \* Math.random(), in hundredths
Clock == {1, 2}            \* Date.now()


(* One intent handled from start to end.  The sender is a participant of   *)
(* the room and acts for the role it was given (lines 1398-1400); nothing  *)
(* is done while the room holds fewer than two participants (line 1392);   *)
(* sendSync addresses the participants present (line 1225); the handler    *)
(* emits to the room and to the participants only, never to the sender's   *)
(* socket alone.  An error thrown out of the handler is caught nowhere in  *)
(* the program (no try around the handler, no uncaughtException listener): *)
(* it ends the process, and the room with it.                              *)
Handle(role, intent, rnd, now) ==
    /\ ~down
    /\ \E k \in 1..Len(players) : players[k].role = role
    /\ \E h \in {IF Len(players) = 2
                 THEN gameIntent([state |-> state, match |-> match], sync, role, intent,
                                 rnd, now)
                 ELSE Reject([state |-> state, match |-> match], sync)} :
        /\ state' = h.rm.state
        /\ match' = h.rm.match
        /\ sync' = [r \in Roles |->
                       IF \E k \in 1..Len(players) : players[k].role = r
                       THEN h.sync[r] ELSE sync[r]]
        /\ events' = h.evs
        /\ last' = [role |-> role, res |-> h.res]
        /\ down' = (h.res = "threw")
        /\ players' = players
        /\ replies' = <<>>
        /\ UNCHANGED <<redis, handlers, emitted, playings, engine, answer>>

(* Turns are explored from the first state of the room on. *)
TurnsExplored ==
    IF match.turnCounter >= LateMatch.rm.match.turnCounter
    THEN match.turnCounter - LateMatch.rm.match.turnCounter
    ELSE match.turnCounter - 1

EndTurn(role) ==
    /\ TurnsExplored < MaxTurns
    /\ Handle(role, [type |-> "endTurn"], 0, 0)

DrawCard(role) ==
    /\ role \in Roles
    /\ Handle(role, [type |-> "drawCard"], 0, 0)

PlayCard(role, line, index, handIndex) ==
    /\ role \in Roles
    /\ Handle(role, [type |-> "playCard", line |-> line, index |-> index,
                     handIndex |-> handIndex], 0, 0)

UseHab(role, from, target) ==
    /\ role \in Roles
    /\ Handle(role, [type |-> "useHab", from |-> from, target |-> target], 0, 0)

UseUlt(role, from, target) ==
    /\ role \in Roles
    /\ Handle(role, [type |-> "useUlt", from |-> from, target |-> target], 0, 0)

(* Math.random and Date.now are read only on the paths that call them. *)
RandomFor(role) ==
    IF getTeamEffects(state[role], "pa_steal_on_damage") # <<>> THEN RandomDraws ELSE {0}
ClockFor(role, from) ==
    IF isValidLine(from.line) /\ isValidIndex(from.index)
         /\ SlotAt(state[role], from) # <<>> /\ SlotAt(state[role], from)[1].dbId = "L10"
    THEN Clock ELSE {0}

Attack(role, from, to, rnd, now) ==
    /\ rnd \in RandomFor(role)
    /\ now \in ClockFor(role, from)
    /\ Handle(role, [type |-> "attack", from |-> from, to |-> to], rnd, now)

Next ==
    \/ \E role \in Roles : EndTurn(role)
    \/ \E role \in Roles : DrawCard(role)
    \/ \E role \in Roles, p \in PosInputs, h \in HandInputs :
           PlayCard(role, p.line, p.index, h)
    \/ \E role \in Roles, from \in PosInputs, target \in TargetInputs :
           UseHab(role, from, target)
    \/ \E role \in Roles, from \in PosInputs, target \in TargetInputs :
           UseUlt(role, from, target)
    \/ \E role \in Roles, from \in PosInputs, to \in PosInputs :
           \E rnd \in RandomDraws \cup {0}, now \in Clock \cup {0} :
               Attack(role, from, to, rnd, now)
    \/ \E role \in Roles :
           /\ role \in Roles
           /\ Handle(role, [type |-> "surrender"], 0, 0)

Spec == Init /\ [][Next]_vars

-----------------------------------------------------------------------------
(* Card locations.                                                         *)

(* The instanceIds a side holds, over its hand, deck, graveyard and board, *)
(* and how many times it holds each.                                       *)
ZoneIds(ps) ==
    MapSeq(ps.hand \o ps.deck \o ps.graveyard \o BoardCards(ps), LAMBDA c : c.instanceId)

IdBag(ps) ==
    Then(ZoneIds(ps), LAMBDA ids :
        [id \in {ids[k] : k \in 1..Len(ids)} |->
            Cardinality({k \in 1..Len(ids) : ids[k] = id})])

(* buildDeck gives the n cards of a side the instanceIds <<side, 1>> to    *)
(* <<side, n>>: the side holds each of them once.                          *)
CreatedOnce(role) ==
    IdBag(state[role]) =
        [id \in {<<role, k>> : k \in 1..Len(ZoneIds(state[role]))} |-> 1]

C3_PointsWithinBounds ==
    \A role \in Roles :
        /\ 0 <= state[role].pi /\ state[role].pi <= state[role].maxPi
        /\ Then(state[role].hand \o state[role].deck \o state[role].graveyard
                    \o BoardCards(state[role]),
                LAMBDA cards : \A k \in 1..Len(cards) :
                    0 <= cards[k].pa /\ cards[k].pa <= cards[k].maxPa)

(* A turn has ended with a card of the board already at its maximum, and   *)
(* a side has spent part of its pool.                                      *)
C3_Witness ==
    /\ last.res = "ok"
    /\ \E k \in 1..Len(events) : events[k].type = "turnStart" /\ ~events[k].isGameStart
    /\ \E c \in {BoardCards(state[last.role])[k] :
                     k \in 1..Len(BoardCards(state[last.role]))} : c.pa = c.maxPa
    /\ \E role \in Roles : state[role].pi < state[role].maxPi


-----------------------------------------------------------------------------
(* Authority and the end of the match.                                     *)

(* C4: an intent sent by the side that is not active is refused: the state *)
(* and the match are left as they were, no game:sync is sent and no        *)
(* game:event is emitted.                                                  *)
C4_NonActiveIntentRefused ==
    [][last'.role # match.activeRole =>
           /\ last'.res = "rejected"
           /\ state' = state
           /\ match' = match
           /\ sync' = sync
           /\ events' = <<>>]_vars

(* The side that is not active has sent an intent while it had cards on    *)
(* the board and in its hand, in a match without a winner.                 *)
C4_Witness ==
    /\ last.res = "rejected"
    /\ last.role # match.activeRole
    /\ match.winner = NoRole
    /\ BoardCards(state[last.role]) # <<>>
    /\ state[last.role].hand # <<>>

(* C5: once a winner is recorded it stays, and no intent changes the state *)
(* or the match (turn counter, active side) any more.                      *)
C5_NothingAfterWinner ==
    [][match.winner # NoRole =>
           /\ match'.winner = match.winner
           /\ state' = state
           /\ match' = match]_vars

(* An intent has been handled after the winner was recorded. *)
C5_Witness ==
    /\ match.winner # NoRole
    /\ last.res = "rejected"
    /\ events = <<>>

(* C6: when an intent brings the health of a side's player to 0, the same  *)
(* intent emits a gameOver event naming that side the loser and the other  *)
(* side the winner.                                                        *)
C6_GameOverWithTheBlow ==
    [][\A role \in Roles :
           (state[role].playerHp > 0 /\ state'[role].playerHp <= 0) =>
               \E k \in 1..Len(events') :
                   /\ events'[k].type = "gameOver"
                   /\ events'[k].loser = role
                   /\ events'[k].winner = enemyRoleOf(role)]_vars

(* An attack has just brought a player to 0. *)
C6_Witness ==
    /\ last.res = "ok"
    /\ \E role \in Roles : state[role].playerHp = 0
    /\ \E k \in 1..Len(events) : events[k].type = "attack" /\ events[k].playerDmgToEnemy > 0
    /\ \E k \in 1..Len(events) : events[k].type = "gameOver"


-----------------------------------------------------------------------------
(* Snapshots.                                                              *)

(* The states that differ from st only in what the hand and the deck of    *)
(* side hidden contain, the sizes kept: the two lists reversed, and every  *)
(* card of them replaced by another card.                                  *)
Reversed(s) == [k \in 1..Len(s) |-> s[Len(s) + 1 - k]]

HiddenVariants(st, hidden) ==
    { [st EXCEPT ![hidden].hand = Reversed(@), ![hidden].deck = Reversed(@)],
      [st EXCEPT ![hidden].hand = [k \in 1..Len(@) |-> instantiateCard("L3", hidden, 50 + k)],
                 ![hidden].deck = [k \in 1..Len(@) |-> instantiateCard("L7", hidden, 70 + k)]] }

(* C7: the snapshot a side holds carries the other side's hand and deck as *)
(* empty lists, with handCount and deckCount equal to the sizes of that    *)
(* hand and deck in the state; and states that differ only in the contents *)
(* of the other side's hand and deck give the viewer the same snapshot.    *)
C7_HiddenHandAndDeck ==
    \A viewer \in Roles :
        /\ sync[viewer] # <<>> =>
               Then(sync[viewer][1].state[enemyRoleOf(viewer)], LAMBDA seen :
                   /\ seen.hand = <<>>
                   /\ seen.deck = <<>>
                   /\ seen.handCount = Len(state[enemyRoleOf(viewer)].hand)
                   /\ seen.deckCount = Len(state[enemyRoleOf(viewer)].deck))
        /\ \A other \in HiddenVariants(state, enemyRoleOf(viewer)) :
               redactStateForRole(other, viewer).clone
                   = redactStateForRole(state, viewer).clone

(* A snapshot was sent while the other side held cards in its hand and in  *)
(* its deck, and a variant of the state is a different state.              *)
C7_Witness ==
    /\ last.res = "ok"
    /\ \E viewer \in Roles :
           /\ sync[viewer] # <<>>
           /\ sync[viewer][1].state[enemyRoleOf(viewer)].handCount > 0
           /\ sync[viewer][1].state[enemyRoleOf(viewer)].deckCount > 1
           /\ \A other \in HiddenVariants(state, enemyRoleOf(viewer)) : other # state

AcceptedEndTurn(role) ==
    /\ last'.role = role
    /\ last'.res = "ok"
    /\ Handle(role, [type |-> "endTurn"], 0, 0)

(* C9: turns alternate strictly. In every step that changes the active     *)
(* side, the step is an accepted endTurn intent of the side that was       *)
(* active and the other side is active after it; and every accepted        *)
(* endTurn intent makes the side that did not send it the active side.     *)
C9_TurnsAlternate ==
    [][ /\ match'.activeRole # match.activeRole =>
               /\ AcceptedEndTurn(match.activeRole)
               /\ match'.activeRole = enemyRoleOf(match.activeRole)
        /\ \A role \in Roles :
               AcceptedEndTurn(role) =>
                   /\ match.activeRole = role
                   /\ match'.activeRole = enemyRoleOf(role)
      ]_vars

(* Side p1 ended its turn and the turn of p2 started.                      *)
C9_Witness ==
    /\ last = [role |-> "p1", res |-> "ok"]
    /\ match.activeRole = "p2"
    /\ \E k \in 1..Len(events) :
           /\ events[k].type = "turnStart"
           /\ events[k].role = "p2"
           /\ events[k].isGameStart = FALSE

(* C10: in every reachable state round = floor((turnCounter + 1) / 2) and  *)
(* p1 is active exactly when turnCounter is odd; in every step turnCounter *)
(* grows by 1 when the step is an accepted endTurn and is unchanged        *)
(* otherwise, and round grows by 1 when the step is an accepted endTurn of *)
(* p2 and is unchanged otherwise.                                          *)
C10_CountersFollowEndTurn ==
    /\ [](/\ match.round = (match.turnCounter + 1) \div 2
          /\ (match.activeRole = "p1") <=> (match.turnCounter % 2 = 1))
    /\ [][ /\ match'.turnCounter =
                  match.turnCounter
                      + (IF \E role \in Roles : AcceptedEndTurn(role) THEN 1 ELSE 0)
           /\ match'.round =
                  match.round + (IF AcceptedEndTurn("p2") THEN 1 ELSE 0)
         ]_vars

(* Side p2 ended the second turn of a match: the third turn and the second *)
(* round begin.                                                            *)
C10_Witness ==
    /\ last = [role |-> "p2", res |-> "ok"]
    /\ match.turnCounter = 3
    /\ match.round = 2
    /\ match.activeRole = "p1"

-----------------------------------------------------------------------------
(* Cards that carry effects.  No intent the handler accepts creates a      *)
(* status effect (the ability routines lie behind line 1019, the L-10      *)
(* shield of line 1591 needs an effect of the L-10 skill), so the damage   *)
(* pipeline and the ability checks are exercised from the rooms below: a   *)
(* match in its third turn, played from its start through the handler,     *)
(* whose cards are then given effects, each written as the routine that    *)
(* creates it writes it, and usage marks, each left by canUseAction.       *)

SkirmishOrders ==
    [p1 |-> <<"C1", "L11", "L13", "C1", "R1", "U1", "R1", "C1">>,
     p2 |-> <<"L6", "C1", "R1", "C1", "U1", "L2", "R1", "U1">>]

(* p1, active: C-1 (4 action points), L-11 (7), L-13 (5) in its front row; *)
(* p2: L-6 and C-1 in its front row.                                       *)
Skirmish ==
    Replay(Replay(Replay(MatchStart(SkirmishOrders.p1, SkirmishOrders.p2), "p1",
                         << PlayAt(Front(0)), PlayAt(Front(1)), EndOfTurn >>), "p2",
                  << PlayAt(Front(0)), PlayAt(Front(1)), EndOfTurn >>), "p1",
           << PlayAt(Front(2)) >>)

(* The effect a routine of executeSupportAction adds to card: source is    *)
(* the instance id of the card that uses the ability, sourceOwner its      *)
(* side, rm the room in which it does.  Lines 678, 703, 709, 727, 735,     *)
(* 736, 751, 759, 786, 788, 797, 805, 821, 842 and 857; the team effects  *)
(* of lines 855 (with Date.now() = 1) and 940.                             *)
RoutineEffect(rm, routine, source, sourceOwner, card) ==
    LET NoFields == [none |-> TRUE]        \* filters:{} and meta:{}
        Skeletons(cards) == Len(SelectSeq(cards, LAMBDA c : TribeOf(c) = "Esqueletos"))
        Effect(id, sourceDbId, type, value, turnsLeft, meta) ==
            [id |-> id, sourceDbId |-> sourceDbId, type |-> type, value |-> value,
             turnsLeft |-> turnsLeft, filters |-> NoFields, meta |-> meta]
    IN  CASE routine = "l3_reduce" ->
                 Effect(<<"l3_reduce", source>>, "L3", "damage_reduction", 30, 2, NoFields)
          [] routine = "l6_skill" ->
                 Effect(<<"l6_skill", source, card.instanceId>>, "L6",
                        "damage_reduction", 10, 2, NoFields)
          [] routine = "l6_ult" ->
                 Effect(<<"l6_ult", source, card.instanceId>>, "L6",
                        "damage_immunity", 1, 1, NoFields)
          [] routine = "l7_ult" ->
                 Effect(<<"l7_ult", source, card.instanceId>>, "L7", "pacifist", 1,
                        IF card.owner = sourceOwner THEN 1 ELSE 2, NoFields)
          [] routine = "l10_skill_reduction" ->
                 Effect(<<"l10_skill_reduction", source>>, "L10", "damage_reduction",
                        20, 3, NoFields)
          [] routine = "l10_ult_shield" ->
                 Effect(<<"l10_ult_shield", source, card.instanceId>>, "L10", "shield",
                        (card.maxHp * 20) \div 100, 2, NoFields)
          [] routine = "l11_drunk" ->
                 Effect(<<"l11_drunk", source>>, "L11", "damage_reduction", 25, 1,
                        [permanent |-> TRUE])
          [] routine = "l14_vuln" ->
                 Effect(<<"l14_vuln", source, card.instanceId>>, "L14",
                        "damage_taken_mult", 125, 2, [ignoreSuppression |-> TRUE])
          [] routine = "l8_skill_atk" ->
                 Effect(<<"l8_skill_atk", source>>, "L8", "atk_flat",
                        (Skeletons(BoardCards(rm.state[sourceOwner]))
                             + Skeletons(rm.state[sourceOwner].graveyard)) * 20,
                        2,
                        [countField |-> Skeletons(BoardCards(rm.state[sourceOwner])),
                         countGy |-> Skeletons(rm.state[sourceOwner].graveyard)])
          [] routine = "l8_skill_redirect" ->
                 Effect(<<"l8_skill_redirect", source>>, "L8",
                        "damage_redirect_skeletons", 20, 1, NoFields)
          [] routine = "l12_ult_infect" ->     \* by an L-12 with no attack effect
                 Effect(<<"l12_ult_infect", source, card.instanceId>>, "L12",
                        "infection", (CARD_DB["L12"].atk * 20) \div 100, 2,
                        [sourceInstanceId |-> source])
          [] routine = "l13_control" ->
                 Effect(<<"l13_control", source, card.instanceId>>, "L13",
                        "mind_control", 1, 2, [controller |-> sourceOwner])
          [] routine = "l13_necro" ->
                 Effect(<<"l13_necro", source, card.instanceId>>, "L13",
                        "necro_control", 0, 99, NoFields)
          [] routine = "l11_sober" ->
                 Effect(<<"l11_sober", source>>, "L11", "atk_mult", 125, 1,
                        [permanent |-> TRUE])
          [] routine = "l12_ult_buff" ->
                 [Effect(<<"l12_ult_buff", source, card.instanceId>>, "L12", "atk_flat",
                         Len(BoardCards(rm.state[sourceOwner])) * 20, 2, NoFields)
                     EXCEPT !.filters = [targetUid |-> card.instanceId]]
          [] routine = "l14_suppress" ->
                 Effect(<<"l14_suppress", source, 1>>, "L14", "suppress_temp_effects",
                        1, 2, [sourceSide |-> sourceOwner])
          [] routine = "l18_vanguard_atk" ->
                 [Effect(<<"l18_vanguard_atk", sourceOwner>>, "L18", "atk_mult",
                         120, 2, NoFields)
                     EXCEPT !.filters = [owner |-> sourceOwner]]

(* The effects a card is given, by name of the ward.  "capped" is a list   *)
(* of reductions that sums to more than the cap of getDamageReduction.     *)
Wards == {"none", "shield", "reduce", "immune", "vuln", "shieldvuln", "capped"}

WardOf(rm, ward, card) ==
    LET ally(n) == <<card.owner, n>>
        foe(n) == <<enemyRoleOf(card.owner), n>>
        E(routine, source) ==
            RoutineEffect(rm, routine, source, source[1], card)
    IN  CASE ward = "shield" -> << E("l10_ult_shield", ally(90)) >>
          [] ward = "reduce" -> << E("l6_skill", ally(91)) >>
          [] ward = "immune" -> << E("l6_ult", ally(91)) >>
          [] ward = "vuln"   -> << E("l14_vuln", foe(92)) >>
          [] ward = "shieldvuln" -> << E("l10_ult_shield", ally(90)), E("l14_vuln", foe(92)) >>
          [] ward = "capped" ->
                 << E("l3_reduce", card.instanceId), E("l11_drunk", card.instanceId),
                    E("l10_skill_reduction", card.instanceId),
                    E("l6_skill", ally(91)), E("l6_skill", ally(93)) >>
          [] ward = "pacifist" -> << E("l7_ult", <<"p2", 94>>) >>
          [] ward = "drunk" -> << E("l11_drunk", card.instanceId) >>
          [] ward = "infected" -> << E("l12_ult_infect", foe(95)) >>
          [] ward = "sober" -> << E("l11_sober", card.instanceId) >>
          [] ward = "buffed" -> << E("l12_ult_buff", ally(96)) >>
          [] ward = "ossuary" ->
                 << E("l8_skill_atk", card.instanceId),
                    E("l8_skill_redirect", card.instanceId) >>
          [] OTHER -> <<>>

(* addStatusEffect for each effect of the ward, on the card at pos. *)
GrantAt(rm, role, pos, ward) ==
    LET RECURSIVE Grant(_, _)
        Grant(card, effects) ==
            IF effects = <<>> THEN card
            ELSE Grant(addStatusEffect(card, Head(effects)), Tail(effects))
    IN  [rm EXCEPT !.state[role] =
            SetSlot(@, pos, <<Grant(SlotAt(@, pos)[1], WardOf(rm, ward, SlotAt(@, pos)[1]))>>)]

(* The ultimate of L-13 in executeSupportAction, lines 825-844, used by    *)
(* the card source with target <<>> or <<[role, pos]>>.  effectTarget is   *)
(* one object: what the routine writes on it shows in the slot where it    *)
(* was found and in the slot it is put in.                                 *)
L13Control(rm, source, target) ==
    Then(IF target = <<>> \/ SlotAt(rm.state[target[1].role], target[1].pos) = <<>>
         THEN source
         ELSE SlotAt(rm.state[target[1].role], target[1].pos)[1], LAMBDA effectTarget :
    IF effectTarget.controlImmune \/ effectTarget.controlledBy # NoRole
    THEN [rm |-> rm, ok |-> FALSE, reason |-> "control_immune"] ELSE
    Then(findCardPosition(rm, effectTarget.owner, effectTarget.instanceId),
         LAMBDA originPos :
    IF originPos = <<>> THEN [rm |-> rm, ok |-> FALSE, reason |-> "bad_target"] ELSE
    Then(FirstEmpty(rm.state[source.owner]), LAMBDA spot :
    Then([effectTarget EXCEPT
              !.controlledBy = source.owner,
              !.controlOrigin = <<[owner |-> effectTarget.owner, pos |-> originPos]>>,
              !.controlReleaseTurn = rm.match.turnCounter + 2,
              !.controlImmune = TRUE,
              !.owner = IF spot = <<>> THEN @ ELSE source.owner,
              !.controlMoved = IF spot = <<>> THEN @ ELSE TRUE], LAMBDA marked :
    Then(addStatusEffect(marked, RoutineEffect(rm, "l13_control", source.instanceId,
                                               source.owner, effectTarget)),
         LAMBDA taken :
    Then([rm EXCEPT !.state[effectTarget.owner] = SetSlot(@, originPos[1], <<taken>>)],
         LAMBDA r1 :
        IF spot = <<>> THEN [rm |-> r1, ok |-> TRUE, reason |-> ""]
        ELSE [rm |-> [[r1 EXCEPT !.state[enemyRoleOf(source.owner)] =
                                     SetSlot(@, originPos[1], <<>>)]
                         EXCEPT !.state[source.owner] = SetSlot(@, spot[1], <<taken>>)],
              ok |-> TRUE, reason |-> ""]))))))

(* The skill of L-13 in executeSupportAction, lines 808-824, used by the   *)
(* card source with target <<>> or <<[role, graveyardCard]>>, where        *)
(* graveyardCard is <<>> or <<card>>.  The summoned card is a copy; the    *)
(* fields necromancerId and necroOriginalOwner, read nowhere, are left out. *)
L13Summon(rm, source, target) ==
    Then(IF target # <<>> THEN target[1].role ELSE source.owner, LAMBDA originRole :
    Then(IF target # <<>> /\ target[1].graveyardCard # <<>> THEN target[1].graveyardCard
         ELSE SubSeq(rm.state[originRole].graveyard, 1,
                     Min(1, Len(rm.state[originRole].graveyard))), LAMBDA targetCard :
    IF targetCard = <<>> THEN [rm |-> rm, ok |-> FALSE, reason |-> "no_target"]
    ELSE IF RarityOf(targetCard[1]) \notin {"COMMON", "RARE", "EPIC"}
         THEN [rm |-> rm, ok |-> FALSE, reason |-> "rarity"]
    ELSE IF Len(SelectSeq(BoardCards(rm.state[source.owner]),
                          LAMBDA c : c.isNecroSummon)) >= 2
         THEN [rm |-> rm, ok |-> FALSE, reason |-> "limit"]
    ELSE
    Then(FirstEmpty(rm.state[source.owner]), LAMBDA place :
    IF place = <<>> THEN [rm |-> rm, ok |-> FALSE, reason |-> "no_space"] ELSE
    Then({k \in 1..Len(rm.state[originRole].graveyard) :
             rm.state[originRole].graveyard[k].instanceId = targetCard[1].instanceId},
         LAMBDA found :
    Then(IF found = {} THEN rm
         ELSE Then(CHOOSE k \in found : \A j \in found : k <= j, LAMBDA idx :
                  [rm EXCEPT !.state[originRole].graveyard =
                      SubSeq(@, 1, idx - 1) \o SubSeq(@, idx + 1, Len(@))]), LAMBDA r1 :
    Then([targetCard[1] EXCEPT !.owner = source.owner, !.isNecroSummon = TRUE],
         LAMBDA copy :
    Then(addStatusEffect(copy, RoutineEffect(rm, "l13_necro", source.instanceId,
                                             source.owner, copy)), LAMBDA summoned :
        [rm |-> [r1 EXCEPT !.state[source.owner] = SetSlot(@, place[1], <<summoned>>)],
         ok |-> TRUE, reason |-> ""])))))))

(* executeSupportAction, lines 636-983, for the routines that heal or       *)
(* grant action points (L-4, L-7 ultimate, L-14 skill, L-16 ultimate, L-18  *)
(* skill, L-19 skill) and for L-13.  target is <<>>, <<[role, pos]>>,       *)
(* <<[suit]>> or <<[role, graveyardCard]>>; effectTarget (line 639) is the  *)
(* card in the target's slot, or the source where there is none.  rnd is    *)
(* Math.floor(Math.random() * 4) of line 894, Date.now() is 1.  Values that *)
(* are fractions in the code are in hundredths.  The routines of the other  *)
(* cards are not used by the rooms of this module.                          *)
executeSupportAction(rm, actionType, source, target, rnd) ==
    LET role == source.owner
        utilMult == IF getTeamEffects(rm.state[role], "l14_util_double") # <<>>
                    THEN 2 ELSE 1
        NoFields == [none |-> TRUE]
        Eff(id, type, value, turnsLeft, filters, meta) ==
            [id |-> id, sourceDbId |-> source.dbId, type |-> type, value |-> value,
             turnsLeft |-> turnsLeft, filters |-> filters, meta |-> meta]
        home == [role |-> role, pos |-> findCardPosition(rm, role, source.instanceId)[1]]
        aim == IF /\ target # <<>>
                  /\ "pos" \in DOMAIN target[1]
                  /\ SlotAt(rm.state[target[1].role], target[1].pos) # <<>>
               THEN [role |-> target[1].role, pos |-> target[1].pos]
               ELSE home
        At(r, pl) == SlotAt(r.state[pl.role], pl.pos)[1]
        Put(r, pl, c) == [r EXCEPT !.state[pl.role] = SetSlot(@, pl.pos, <<c>>)]
        Each(r, side, F(_)) ==
            [r EXCEPT !.state[side] =
                [@ EXCEPT !.front = [i \in 1..BOARD_SLOTS |->
                                        IF @[i] = <<>> THEN <<>> ELSE <<F(@[i][1])>>],
                          !.back = [i \in 1..BOARD_SLOTS |->
                                        IF @[i] = <<>> THEN <<>> ELSE <<F(@[i][1])>>]]]
        Team(r, e) == [r EXCEPT !.state[role] = addTeamEffect(@, e)]
        GainPa(c, gain) == [c EXCEPT !.pa = Min(10, @ + gain)]
        Heal(c, amount) == [c EXCEPT !.hp = Min(c.maxHp, @ + amount)]
        Done(r) == [rm |-> r, ok |-> TRUE, reason |-> ""]
        suit == IF target # <<>> /\ "suit" \in DOMAIN target[1]
                THEN target[1].suit
                ELSE <<"swords", "hearts", "gold", "clubs">>[rnd + 1]
    IN  CASE source.dbId = "L4" /\ actionType = "skill" ->
                 Done(Team(Each(rm, role, LAMBDA c : GainPa(c, 2)),
                           Eff(<<"l4_next_pa", source.instanceId, 1>>, "pa_bonus_start",
                               2, 1, NoFields, NoFields)))
          [] source.dbId = "L4" /\ actionType = "ult" ->
                 Done(Each(rm, role, LAMBDA c : Heal(c, Max(0, c.maxHp - c.hp))))
          [] source.dbId = "L7" /\ actionType = "ult" ->
                 Then(At(rm, aim), LAMBDA e :
                     Done(Put(rm, aim,
                         addStatusEffect(IF e.owner = role THEN [e EXCEPT !.hp = e.maxHp]
                                         ELSE e,
                                         RoutineEffect(rm, "l7_ult", source.instanceId,
                                                       role, e)))))
          [] source.dbId = "L13" /\ actionType = "skill" -> L13Summon(rm, source, target)
          [] source.dbId = "L13" /\ actionType = "ult" -> L13Control(rm, source, target)
          [] source.dbId = "L14" /\ actionType = "skill" ->
                 Then(Team(rm, Eff(<<"l14_util_double", role>>, "l14_util_double", 2, 2,
                                   NoFields, [sourceSide |-> role])), LAMBDA r1 :
                 Then(At(r1, aim), LAMBDA e :
                     Done(Put(r1, aim,
                         addStatusEffect(GainPa(e, 2 * utilMult),
                             Eff(<<"l14_pa_boost", e.instanceId>>, "pa_bonus_start_card",
                                 2 * utilMult, 1, [targetUid |-> e.instanceId],
                                 NoFields))))))
          [] source.dbId = "L16" /\ actionType = "ult" ->
                 Then(Put(rm, home,
                          addStatusEffect(At(rm, home),
                              Eff(<<"l16_suit", source.instanceId>>, "l16_suit_badge", 0, 1,
                                  NoFields, [label |-> suit, icon |-> suit]))), LAMBDA r1 :
                 Then(At(r1, aim), LAMBDA e :
                 CASE suit = "swords" ->
                          Done(Put(r1, aim, addStatusEffect(e,
                              Eff(<<"l16_swords", source.instanceId, e.instanceId>>,
                                  "atk_mult", 175, 1, [targetUid |-> e.instanceId],
                                  NoFields))))
                   [] suit = "hearts" ->
                          Done(Put(r1, aim, Heal(e, (e.maxHp * 75 * utilMult) \div 100)))
                   [] suit = "gold" ->
                          Done(Each(r1, enemyRoleOf(role), LAMBDA c :
                              addStatusEffect(
                                  [c EXCEPT !.statusEffects =
                                       SelectSeq(@, LAMBDA x : x.type # "atk_mult")],
                                  Eff(<<"l16_gold", source.instanceId, c.instanceId>>,
                                      "atk_mult", 85, 1, NoFields, NoFields))))
                   [] suit = "clubs" ->
                          Done(Team(Each(r1, role, LAMBDA c : GainPa(c, 2 * utilMult)),
                                    Eff(<<"l16_clubs_next", source.instanceId, 1>>,
                                        "pa_bonus_start", 2 * utilMult, 1, NoFields,
                                        [sourceSide |-> role])))
                   [] OTHER -> Done(r1)))
          [] source.dbId = "L18" /\ actionType = "skill" ->
                 Then(Team(Team(rm, RoutineEffect(rm, "l18_vanguard_atk", source.instanceId,
                                                  role, source)),
                           Eff(<<"l18_vanguard_back", role>>, "l18_backrow_access", 1, 2,
                               [owner |-> role], NoFields)), LAMBDA r1 :
                 Then(At(r1, aim), LAMBDA e :
                     Done(Put(r1, aim,
                         addStatusEffect(GainPa(e, 2),
                             Eff(<<"l18_vanguard_pa", source.instanceId, e.instanceId>>,
                                 "pa_bonus_start_card", 2, 1,
                                 [targetUid |-> e.instanceId], NoFields))))))
          [] source.dbId = "L19" /\ actionType = "skill" ->
                 Done(Team(Team(Each(rm, role, LAMBDA c : GainPa(c, 1)),
                                Eff(<<"l19_rhythm_pa", source.instanceId>>, "pa_bonus_start",
                                    2, 1, [owner |-> role], NoFields)),
                           [id |-> <<"l19_rhythm_steal", source.instanceId>>,
                            sourceDbId |-> source.dbId, type |-> "pa_steal_on_damage",
                            chance |-> 10, turnsLeft |-> 2, filters |-> [owner |-> role],
                            meta |-> NoFields]))
          [] OTHER -> [rm |-> rm, ok |-> FALSE, reason |-> "unsupported"]

(* applyAction for a support ability, lines 985-1034, as it runs when       *)
(* the condition of line 1019 raises nothing: the checks of the cost and of *)
(* the uses, the target resolved from {role, pos} or {role,                  *)
(* graveyardIndex}, the cost paid, the routine, and the cost and the use     *)
(* given back when the routine refuses.                                      *)
applySupportAction(rm, role, from, target, actionType, rnd) ==
    Then(SlotAt(rm.state[role], from), LAMBDA slot :
    IF slot = <<>> THEN [rm |-> rm, ok |-> FALSE, reason |-> "no_card"] ELSE
    Then([slot[1] EXCEPT !.owner = role], LAMBDA source :
    Then([rm EXCEPT !.state[role] = SetSlot(@, from, <<source>>)], LAMBDA r0 :
    IF source.pa < getActionCost(source, actionType)
    THEN [rm |-> r0, ok |-> FALSE, reason |-> "no_pa"] ELSE
    Then(canUseAction(r0, source, actionType), LAMBDA use :
    IF ~use.ok
    THEN [rm |-> [r0 EXCEPT !.state[role] = SetSlot(@, from, <<use.card>>)],
          ok |-> FALSE, reason |-> "cooldown"] ELSE
    Then([use.card EXCEPT !.pa = @ - getActionCost(source, actionType)], LAMBDA paid :
    Then([r0 EXCEPT !.state[role] = SetSlot(@, from, <<paid>>)], LAMBDA r1 :
    Then(IF target = <<>> THEN <<>>
         ELSE IF "graveyardIndex" \in DOMAIN target[1]
         THEN <<[role |-> target[1].role,
                 graveyardCard |->
                     IF target[1].graveyardIndex < Len(r1.state[target[1].role].graveyard)
                     THEN <<r1.state[target[1].role].graveyard[target[1].graveyardIndex + 1]>>
                     ELSE <<>>]>>
         ELSE target, LAMBDA resolved :
    Then(executeSupportAction(r1, actionType, paid, resolved, rnd), LAMBDA supportRes :
        IF supportRes.ok THEN supportRes
        ELSE [rm |-> [r1 EXCEPT !.state[role] = SetSlot(@, from,
                         <<[use.card EXCEPT !.turnActionUses[actionType] = @ - 1]>>)],
              ok |-> FALSE, reason |-> supportRes.reason]))))))))

(* The card at pos after canUseAction has counted n uses of its skill in   *)
(* the turn numbered turn.                                                 *)
UsedAt(rm, role, pos, n, turn) ==
    LET RECURSIVE Used(_, _)
        Used(card, k) ==
            IF k = 0 THEN card
            ELSE Used(canUseAction([rm EXCEPT !.match.turnCounter = turn],
                                   card, "skill").card, k - 1)
    IN  [rm EXCEPT !.state[role] = SetSlot(@, pos, <<Used(SlotAt(@, pos)[1], n)>>)]

(* The skirmish with wards on the two C-1 and, when pacifist names one, a  *)
(* pacifist among the cards that deal damage to them.                      *)
Warded(mine, theirs, pacifist) ==
    Then(GrantAt(GrantAt(Skirmish.rm, "p1", Front(0), mine), "p2", Front(1), theirs),
         LAMBDA r :
        IF pacifist = <<>> THEN r
        ELSE GrantAt(r, pacifist[1].role, pacifist[1].pos, "pacifist"))

(* The skirmish with L-11 drunk or not and skills already used: by L-11 in *)
(* the turn it was played (the first) or in this one, by L-13 in this one. *)
Marked(drunk, usedL11, turnL11, usedL13) ==
    UsedAt(UsedAt(IF drunk THEN GrantAt(Skirmish.rm, "p1", Front(1), "drunk")
                  ELSE Skirmish.rm,
                  "p1", Front(1), usedL11, turnL11),
           "p1", Front(2), usedL13, Skirmish.rm.match.turnCounter)

(* p1, active in the third turn: R-1 (5 action points) and C-1 (4) in its  *)
(* front row; p2: L-8 and C-1 in its front row.                            *)
Ossuary ==
    Replay(Replay(MatchStart(<<"R1", "C1", "C1", "R1", "C1", "U1", "U1", "E1">>,
                             <<"L8", "C1", "R1", "C1", "U1", "R1", "C1", "U1">>), "p1",
                  << PlayAt(Front(0)), PlayAt(Front(1)), EndOfTurn >>), "p2",
           << PlayAt(Front(0)), PlayAt(Front(1)), EndOfTurn >>)

EffectInit ==
    \/ \E mine \in Wards,
          pacifist \in {<<>>, <<[role |-> "p2", pos |-> Front(0)]>>} :
           Started([Skirmish EXCEPT !.rm = Warded(mine, "none", pacifist)], "p1")
    \/ \E theirs \in Wards,
          pacifist \in {<<>>, <<[role |-> "p1", pos |-> Front(1)]>>} :
           Started([Skirmish EXCEPT !.rm = Warded("none", theirs, pacifist)], "p1")
    \/ \E drunk \in BOOLEAN, usedL11 \in 0..2, usedL13 \in 0..1,
          turnL11 \in {1, Skirmish.rm.match.turnCounter} :
           Started([Skirmish EXCEPT !.rm = Marked(drunk, usedL11, turnL11, usedL13)],
                   "p1")
    \/ \E ward \in {"none", "ossuary"} :
           Started([Ossuary EXCEPT !.rm = GrantAt(Ossuary.rm, "p2", Front(0), ward)],
                   "p1")

(* The intents of the active side: attacks by C-1 and L-11, abilities of   *)
(* L-11 and L-13 with no target, an enemy card or an own card as target.   *)
EffectNext ==
    \/ \E from \in {Front(0), Front(1)}, to \in {Front(0), Front(1)} :
           Attack("p1", from, to, 0, 0)
    \/ \E from \in {Front(1), Front(2)},
          target \in {<<>>, <<[role |-> "p2", pos |-> Front(1)]>>,
                      <<[role |-> "p1", pos |-> Front(0)]>>} :
           \/ UseHab("p1", from, target)
           \/ UseUlt("p1", from, target)

EffectSpec == EffectInit /\ [][EffectNext]_vars

-----------------------------------------------------------------------------
(* Claims on combat with effects.                                          *)

Room == [state |-> state, match |-> match]

(* The health of the instance id at pos of role's board, 0 once the        *)
(* instance has left the position.                                         *)
HpAt(st, role, pos, id) ==
    IF SlotAt(st[role], pos) # <<>> /\ SlotAt(st[role], pos)[1].instanceId = id
    THEN SlotAt(st[role], pos)[1].hp ELSE 0

(* The step is an accepted attack: its event, emitted first. *)
AttackStep == events' # <<>> /\ events'[1].type = "attack" /\ last'.res = "ok"

(* What the defence exceeds the attack by, for the attack of the step. *)
Deficit ==
    getEffectiveDef(Room, SlotAt(state[enemyRoleOf(events'[1].role)], events'[1].to[1])[1])
        - getEffectiveAtk(Room, SlotAt(state[events'[1].role], events'[1].from[1])[1])

Struck ==
    LET role == events'[1].role
        from == events'[1].from[1]
        to == events'[1].to[1]
        a == SlotAt(state[role], from)[1]
        t == SlotAt(state[enemyRoleOf(role)], to)[1]
        raw == getEffectiveAtk(Room, a) - getEffectiveDef(Room, t)
    IN  IF raw > 0
        THEN [role |-> enemyRoleOf(role), pos |-> to, card |-> t, source |-> a,
              amount |-> raw]
        ELSE [role |-> role, pos |-> from, card |-> a, source |-> t, amount |-> 0 - raw]

(* The shield of the instance id at pos, 0 once it has left the position. *)
ShieldAt(st, role, pos, id) ==
    IF SlotAt(st[role], pos) # <<>> /\ SlotAt(st[role], pos)[1].instanceId = id
    THEN SlotAt(st[role], pos)[1].shield ELSE 0

(* C12: when damage d > 0 lands on a card with shield s, the shield        *)
(* becomes max(0, s - d) and the health drops by max(0, d - s), never      *)
(* below 0: only what exceeds the shield reaches health.  d is the whole   *)
(* modified damage where none of it is redirected to skeletons.            *)
C12_ShieldAbsorbsFirst ==
    [][AttackStep =>
           Then(Struck, LAMBDA s :
           Then(ModifiedDamage(Room, s.source, s.card, s.amount, 1), LAMBDA d :
           Then(HpAt(state', s.role, s.pos, s.card.instanceId), LAMBDA hpAfter :
               (d > 0 /\ getActiveEffects(Room, s.card, "damage_redirect_skeletons") = <<>>) =>
                   /\ hpAfter = Max(0, s.card.hp - Max(0, d - s.card.shield))
                   /\ hpAfter > 0 =>
                          ShieldAt(state', s.role, s.pos, s.card.instanceId)
                              = Max(0, s.card.shield - d))))
      ]_vars

(* A shield of 20 has been hit by 35: the shield is gone and the card, the *)
(* C-1 in p2's second column, has lost 15 of its 100 health.               *)
C12_Witness ==
    /\ events # <<>>
    /\ events[1].type = "attack"
    /\ events[1].dmgToTarget = 15
    /\ events[1].to = <<Front(1)>>
    /\ SlotAt(state.p2, Front(1)) # <<>>
    /\ SlotAt(state.p2, Front(1))[1].shield = 0
    /\ SlotAt(state.p2, Front(1))[1].hp = 85
    /\ \E k \in 1..Len(SlotAt(state.p2, Front(1))[1].statusEffects) :
           /\ SlotAt(state.p2, Front(1))[1].statusEffects[k].type = "shield"
           /\ SlotAt(state.p2, Front(1))[1].statusEffects[k].value = 20

(* The steps of the claim in exact arithmetic: zero for a pacifist source, *)
(* zero for an immune target, else the amount times the damage-taken       *)
(* multipliers, less the summed reduction capped at 90%, floored.          *)
Mitigated(source, target, amount) ==
    IF isPacifist(Room, source) THEN 0
    ELSE IF hasDamageImmunity(Room, target) THEN 0
    ELSE Then(getDamageTakenMultiplier(Room, target), LAMBDA factors :
         Then(SumSeq(MapSeq(getActiveEffects(Room, target, "damage_reduction"),
                            LAMBDA e : e.value)), LAMBDA reduction :
             (amount * ProdSeq(factors) * (100 - Min(90, reduction)))
                 \div (Pow100(Len(factors)) * 100)))

(* The amount after the damage-taken multipliers, rounded down: a tenth of *)
(* it, rounded down as line 575 rounds, is what a reduction of 90% leaves. *)
Multiplied(target, amount) ==
    Then(getDamageTakenMultiplier(Room, target), LAMBDA factors :
        (amount * ProdSeq(factors)) \div Pow100(Len(factors)))

-----------------------------------------------------------------------------
(* Claims on abilities.                                                    *)

(* The useHab and useUlt intents of the two specifications. *)
AbilityIntents ==
    {[type |-> type, from |-> from, target |-> target] :
        type \in {"useHab", "useUlt"},
        from \in PosInputs \cup {Front(1), Front(2)},
        target \in TargetInputs \cup {<<[role |-> "p2", pos |-> Front(1)]>>,
                                      <<[role |-> "p1", pos |-> Front(0)]>>}}

(* The step handles intent, sent by role. *)
Handled(role, intent) == last'.role = role /\ Handle(role, intent, 0, 0)

L13SkillFails(rm, source, target) ==
    /\ source.dbId = "L13"
    /\ rm.state[IF target # <<>> THEN target[1].role ELSE source.owner].graveyard = <<>>

C16_AbilityIntentsFinish ==
    [][\A intent \in AbilityIntents :
           Handled(match.activeRole, intent) =>
               /\ last'.res \in {"ok", "rejected"}
               /\ ~down'
      ]_vars

(* An ability intent has ended in the ReferenceError of line 1019: the     *)
(* process is down and the card of the active side keeps the use counted   *)
(* and its action points.                                                  *)
C16_Witness ==
    /\ down
    /\ last.res = "threw"
    /\ last.role = match.activeRole
    /\ \E k \in 1..Len(BoardCards(state[match.activeRole])) :
           LET card == BoardCards(state[match.activeRole])[k] IN
           /\ card.turnActionUses.key = cardKey(Room, match.activeRole)
           /\ card.turnActionUses.skill + card.turnActionUses.ult = 1
           /\ card.pa >= getActionCost(card, "skill")

(* The positions of the two boards, each with its side. *)
Places == {[role |-> role, pos |-> Positions[k]] :
               role \in Roles, k \in 1..(2 * BOARD_SLOTS)}

BackRowOpen(role, card) ==
    \/ ~frontHasAny(Room, enemyRoleOf(role))
    \/ TypeOf(card) \in {"Ranged", "Support"}
    \/ getTeamEffects(state[role], "l18_backrow_access") # <<>>

(* C18: an attack or offensive ability aimed at the enemy back row takes   *)
(* effect only if the enemy front row is empty, or the attacker's type is  *)
(* Ranged or Support, or the attacker's side has a back-row-access team    *)
(* effect; and whenever one of the three holds the action is not rejected  *)
(* on back-row grounds.                                                    *)
C18_BackRowAccess ==
    [][/\ (AttackStep /\ events'[1].to[1].line = "back") =>
              BackRowOpen(events'[1].role,
                          SlotAt(state[events'[1].role], events'[1].from[1])[1])
       /\ \A intent \in AbilityIntents :
              (/\ intent.target # <<>>
               /\ intent.target[1].pos.line = "back"
               /\ intent.target[1].role # match.activeRole
               /\ last'.res = "ok"
               /\ Handled(match.activeRole, intent)) =>
                  BackRowOpen(match.activeRole,
                              SlotAt(state[match.activeRole], intent.from)[1])
       /\ \A from \in PosInputs, to \in PosInputs :
              (/\ to.line = "back"
               /\ isValidLine(from.line) /\ isValidIndex(from.index)
               /\ isValidIndex(to.index)
               /\ match.winner = NoRole
               /\ SlotAt(state[match.activeRole], from) # <<>>
               /\ SlotAt(state[enemyRoleOf(match.activeRole)], to) # <<>>
               /\ SlotAt(state[match.activeRole], from)[1].pa >= ATTACK_PA_COST
               /\ BackRowOpen(match.activeRole, SlotAt(state[match.activeRole], from)[1])
               /\ \E now \in ClockFor(match.activeRole, from) :
                      last'.role = match.activeRole
                          /\ Handle(match.activeRole, Hit(from, to), 0, now)) =>
                  last'.res = "ok"
      ]_vars

(* A card in the back row has just been attacked over a front row that is  *)
(* not empty: the attacker is Ranged or Support.                           *)
C18_Witness ==
    /\ events # <<>>
    /\ events[1].type = "attack"
    /\ events[1].to[1].line = "back"
    /\ events[1].dmgToTarget > 0
    /\ frontHasAny(Room, enemyRoleOf(events[1].role))
    /\ getTeamEffects(state[events[1].role], "l18_backrow_access") = <<>>


-----------------------------------------------------------------------------
(* Claims on what the participants are told                                *)

(* C19: every rejected intent produces a rejection message with a reason,  *)
(* sent to the socket of the issuing side only: the sender receives a      *)
(* reply, nothing is emitted to the room and no participant receives a new *)
(* snapshot.                                                               *)
C19_RejectionReportedToIssuer ==
    [][last'.res = "rejected"
           => (replies' # <<>> /\ events' = <<>> /\ sync' = sync)]_vars

(* An intent was rejected and its sender was told nothing.                 *)
C19_Witness ==
    last.res = "rejected" /\ replies = <<>> /\ events = <<>>


-----------------------------------------------------------------------------
(* The room: leaving and joining again.  src/server.js 1345-1388 and       *)
(* 1635-1645.  The room of these behaviours has filled and its match has   *)
(* started; once its last participant has left, the room is deleted (line  *)
(* 1640) and its id, drawn at random by rooms:create, is never used again: *)
(* an empty list of participants stands for the deleted room.  The lobby's *)
(* rooms:list broadcast is left out.                                       *)

(* disconnect of the k-th participant of room.players. *)
Disconnect(k) ==
    /\ ~down
    /\ k \in 1..Len(players)
    /\ players' = SubSeq(players, 1, k - 1) \o SubSeq(players, k + 1, Len(players))
    /\ events' = <<>>
    /\ replies' = <<>>
    /\ UNCHANGED <<state, match, sync, last, down>>
    /\ UNCHANGED <<redis, handlers, emitted, playings, engine, answer>>

(* rooms:join by a socket whose token belongs to user; "anon" holds no     *)
(* valid token.  The accounts u1 and u2 hold the valid decks they started  *)
(* the match with, so validateDeck accepts them and initGameForRoom does   *)
(* not throw; the shuffle of each deck is drawn again.                     *)
Join(user) ==
    LET Refuse(error) ==
            /\ replies' = <<[event |-> "rooms:error", error |-> error]>>
            /\ events' = <<>>
            /\ UNCHANGED <<state, match, sync, last, down, players>>
            /\ UNCHANGED <<redis, handlers, emitted, playings, engine, answer>>
        joined == Append(players, [role |-> IF Len(players) = 0 THEN "p1" ELSE "p2",
                                   user |-> user])
        RECURSIVE SyncAll(_, _)
        SyncAll(st, k) ==
            IF k > Len(joined) THEN st ELSE SyncAll(SyncTo(st, joined[k].role), k + 1)
    IN  /\ ~down
        /\ IF Len(players) = 0 THEN Refuse("Sala não existe.")
           ELSE IF Len(players) >= 2 THEN Refuse("Sala cheia.")
           ELSE IF user = "anon" THEN Refuse("Você precisa estar logado.")
           ELSE IF \E k \in 1..Len(players) : players[k].user = user
                THEN Refuse("Esse usuário já está na sala.")
           ELSE \E order1 \in DeckOrders.p1, order2 \in DeckOrders.p2 :
                \E g \in {initGameForPlayers(joined, [u1 |-> order1, u2 |-> order2])} :
                \E s \in {SyncAll([rm |-> g.rm, sync |-> sync], 1)} :
                    /\ players' = joined
                    /\ state' = s.rm.state
                    /\ match' = s.rm.match
                    /\ sync' = s.sync
                    /\ events' = g.evs \o <<[type |-> "match:start"]>>
                    /\ replies' = <<>>
                    /\ UNCHANGED <<last, down>>
                    /\ UNCHANGED <<redis, handlers, emitted, playings, engine, answer>>

RoomInit ==
    \E order1 \in DeckOrders.p1, order2 \in DeckOrders.p2 :
        Started(MatchStart(order1, order2), "p2")

RoomNext ==
    \/ \E k \in 1..2 : Disconnect(k)
    \/ \E user \in {"u1", "u2", "anon"} : Join(user)
    \/ \E role \in Roles : EndTurn(role)
    \/ \E role \in Roles : DrawCard(role)
    \/ \E role \in Roles, index \in 0..1 : PlayCard(role, "front", index, 0)

RoomSpec == RoomInit /\ [][RoomNext]_vars

-----------------------------------------------------------------------------
(* Claims on leaving and joining again                                     *)

(* C20: when a participant of a match in progress has left and joins the   *)
(* same room again, the match state (board, hands, decks, health, turn     *)
(* counter, active side) is the one from before, the participant receives  *)
(* it as a complete snapshot, and the match is not initialised again.      *)
C20_RejoinKeepsMatch ==
    [][(Len(players) = 1 /\ Len(players') = 2 /\ match.winner = NoRole)
           => /\ state' = state
              /\ match' = match
              /\ sync'[players'[2].role]
                     = SyncTo([rm |-> Room, sync |-> sync], players'[2].role)
                           .sync[players'[2].role]]_vars

(* The first participant has left a match that had gone past its first     *)
(* turn and has joined again: the room holds two participants, that one    *)
(* the second, and the match is in its first turn.                         *)
C20_Witness ==
    /\ Len(players) = 2
    /\ players[2].user = "u1"
    /\ match.turnCounter = 1
    /\ \E r \in Roles : Len(sync[r]) > 0 /\ sync[r][1].round > 1


-----------------------------------------------------------------------------
(* Claims on deaths and on the board                                       *)

(* The instance ids of the cards in a sequence. *)
IdsOf(cards) == {cards[k].instanceId : k \in 1..Len(cards)}

(* The instance ids listed by the death events of the step. *)
DeathsListed ==
    UNION {IdsOf(events'[e].deaths) : e \in {k \in 1..Len(events') : events'[k].type = "death"}}

C22_NoDeadCardOnBoard ==
    \A r \in Roles : \A k \in 1..Len(BoardCards(state[r])) : BoardCards(state[r])[k].hp > 0

(* An accepted playCard has put a card with health 0 on the board.         *)
C22_Witness ==
    /\ last.res = "ok" /\ events # <<>> /\ events[1].type = "summon"
    /\ \E r \in Roles : \E k \in 1..Len(BoardCards(state[r])) :
           BoardCards(state[r])[k].hp <= 0 /\ BoardCards(state[r])[k].dbId = "U1"


-----------------------------------------------------------------------------
(* The functions applied on their own.  The room is the skirmish with the  *)
(* inputs of the function under study written into it; each step applies   *)
(* one function of the source to the room as it stands, outside any        *)
(* handler, and the room keeps what the function leaves.                   *)

(* The skirmish with, on p1's side: the suppression of an L-14 ultimate of *)
(* p2's last turn, decremented once by p1's turn start; the team attack    *)
(* multiplier of an L-18 skill of this turn; on L-11 the permanent sober   *)
(* multiplier and the attack bonus of an L-12 ultimate of this turn.       *)
Armed(suppressed, vanguard, sober, buffed) ==
    Then(IF sober THEN GrantAt(Skirmish.rm, "p1", Front(1), "sober") ELSE Skirmish.rm,
         LAMBDA r1 :
    Then(IF suppressed
         THEN [r1 EXCEPT !.state.p1.teamEffects =
                  DecrementTeamEffects(
                      addTeamEffect(r1.state.p1,
                                    RoutineEffect(r1, "l14_suppress", <<"p2", 97>>, "p2",
                                                  <<>>)).teamEffects)]
         ELSE r1, LAMBDA r2 :
    Then(IF vanguard
         THEN [r2 EXCEPT !.state.p1 =
                  addTeamEffect(@, RoutineEffect(r2, "l18_vanguard_atk", <<"p1", 98>>,
                                                 "p1", <<>>))]
         ELSE r2, LAMBDA r3 :
        IF buffed THEN GrantAt(r3, "p1", Front(1), "buffed") ELSE r3)))

FunctionInit ==
    \/ \E hp1 \in {0, 35}, hp2 \in {0, 35} :
           Started([Skirmish EXCEPT !.rm.state.p1.playerHp = hp1,
                                    !.rm.state.p2.playerHp = hp2], "p1")
    \/ \E ward0 \in {"none", "infected"}, ward1 \in {"none", "infected"} :
           Started([Skirmish EXCEPT !.rm = GrantAt(GrantAt(Skirmish.rm, "p2", Front(0), ward0),
                                                   "p2", Front(1), ward1)], "p1")
    \/ \E suppressed \in BOOLEAN, vanguard \in BOOLEAN, sober \in BOOLEAN,
          buffed \in BOOLEAN :
           Started([Skirmish EXCEPT !.rm = Armed(suppressed, vanguard, sober, buffed)],
                   "p1")

(* emitGameOver; applyDamageToCard for 40 points dealt by p1's L-11 to the *)
(* card in p2's second column; addStatusEffect of the shield of the L-10   *)
(* ultimate (line 759) on that card, while its shield total is below       *)
(* MaxShield; the endTurn intent of the active side, for the turns up to   *)
(* the seventh.                                                            *)
FunctionNext ==
    \/ \E o \in {emitGameOver(Room)} :
           /\ state' = o.rm.state
           /\ match' = o.rm.match
           /\ events' = o.evs
           /\ UNCHANGED <<sync, last, down, players, replies>>
           /\ UNCHANGED <<redis, handlers, emitted, playings, engine, answer>>
    \/ \E source \in {SlotAt(state.p1, Front(1))} :
       \E o \in {IF source = <<>> THEN NoDamage(Room)
                 ELSE applyDamageToCard(Room, source[1], "p2", Front(1), 40, 1, FALSE)} :
           /\ ~o.err
           /\ state' = o.rm.state
           /\ match' = o.rm.match
           /\ events' = <<>>
           /\ UNCHANGED <<sync, last, down, players, replies>>
           /\ UNCHANGED <<redis, handlers, emitted, playings, engine, answer>>
    \/ \E slot \in {SlotAt(state.p2, Front(1))} :
           /\ slot # <<>>
           /\ slot[1].shield < MaxShield
           /\ state' = GrantAt(Room, "p2", Front(1), "shield").state
           /\ events' = <<>>
           /\ UNCHANGED <<match, sync, last, down, players, replies>>
           /\ UNCHANGED <<redis, handlers, emitted, playings, engine, answer>>
    \/ /\ match.turnCounter < 7
       /\ Handle(match.activeRole, [type |-> "endTurn"], 0, 0)

FunctionSpec == FunctionInit /\ [][FunctionNext]_vars

-----------------------------------------------------------------------------
(* Claims on the functions                                                 *)

-----------------------------------------------------------------------------
(* Claims on malformed intents                                             *)

(* Intents of an unknown type, or with a line or a column outside the      *)
(* board in one of their coordinates.                                      *)
OffBoard == {[line |-> "mid", index |-> 0], [line |-> "front", index |-> BOARD_SLOTS]}

MalformedIntents ==
    {[type |-> "surrender"]}
        \cup {[type |-> "playCard", line |-> p.line, index |-> p.index, handIndex |-> 0] :
                  p \in OffBoard}
        \cup {[type |-> "attack", from |-> p, to |-> Front(0)] : p \in OffBoard}
        \cup {[type |-> "attack", from |-> Front(0), to |-> p] : p \in OffBoard}
        \cup {[type |-> type, from |-> p, target |-> <<>>] :
                  type \in {"useHab", "useUlt"}, p \in OffBoard}
        \cup {[type |-> type, from |-> Front(0),
               target |-> <<[role |-> "p2", pos |-> [line |-> "mid", index |-> 0]]>>] :
                  type \in {"useHab", "useUlt"}}

(* C24: an intent of an unknown type, or with board coordinates out of     *)
(* range, is rejected: the state is not changed and nothing is sent to the *)
(* room or to a participant.                                               *)
C24_MalformedIntentsRejected ==
    [][(last'.res = "rejected" /\ state' = state /\ match' = match
            /\ sync' = sync /\ events' = <<>>)
           \/ \A role \in Roles, intent \in MalformedIntents : ~Handled(role, intent)]_vars

(* An ability intent has ended the process with an error; the intent whose *)
(* target names a line outside the board ends so when its card can pay.    *)
C24_Witness ==
    /\ down
    /\ last.res = "threw"
    /\ events = <<>>
    /\ \E k \in 1..Len(BoardCards(state[last.role])) :
           LET card == BoardCards(state[last.role])[k] IN
           card.turnActionUses.key = cardKey(Room, last.role)


-----------------------------------------------------------------------------
(* Claims on the turn flow                                                 *)

(* C25: each turn gives the side that becomes active exactly one card:     *)
(* startTurn moves the first card of its deck to the end of its hand when  *)
(* the deck is not empty, and starts the turn without a card when it is;   *)
(* no other step of the turn, a drawCard intent included, takes a card     *)
(* from a deck or adds one to a hand.                                      *)
C25_OneDrawPerTurn ==
    [][IF match'.turnCounter # match.turnCounter
       THEN Then(match'.activeRole, LAMBDA side :
                /\ match'.turnCounter = match.turnCounter + 1
                /\ side = enemyRoleOf(match.activeRole)
                /\ match'.drawnThisTurn[side]
                /\ IF state[side].deck # <<>>
                   THEN /\ state'[side].hand
                               = Append(state[side].hand, Head(state[side].deck))
                        /\ state'[side].deck = Tail(state[side].deck)
                   ELSE /\ state'[side].hand = state[side].hand
                        /\ state'[side].deck = <<>>
                /\ state'[match.activeRole].hand = state[match.activeRole].hand
                /\ state'[match.activeRole].deck = state[match.activeRole].deck)
       ELSE \A r \in Roles :
                /\ state'[r].deck = state[r].deck
                /\ Len(state'[r].hand) <= Len(state[r].hand)]_vars

(* A turn has started for a side whose deck was empty: the turn is past    *)
(* the first, the side is active and no draw event was emitted.            *)
C25_Witness ==
    /\ match.turnCounter > 1
    /\ last.res = "ok"
    /\ events # <<>> /\ events[1].type = "turnStart"
    /\ events[1].role = match.activeRole
    /\ state[match.activeRole].deck = <<>>
    /\ \A e \in 1..Len(events) : events[e].type # "draw"


(* What a card of the side whose turn starts loses to its infection and    *)
(* drain effects, and the effects it keeps with the turns they have left.  *)
HpAfterTurnStart(card) ==
    Max(0, DrainEach(card, getActiveEffects(Room, card, "hp_drain_pct")).hp
               - SumSeq(MapSeq(getActiveEffects(Room, card, "infection"), Val)))

EffectsAfterTurnStart(card) ==
    {<<e.id, IF IsPermanent(e) THEN e.turnsLeft ELSE e.turnsLeft - 1>> :
         e \in {card.statusEffects[i] : i \in {j \in 1..Len(card.statusEffects) :
                    IsPermanent(card.statusEffects[j])
                        \/ card.statusEffects[j].turnsLeft > 1}}}

(* C26: startTurn(side) applies the start-of-turn effects, then sweeps the *)
(* dead of that side, then decrements its timed effects, then marks the    *)
(* side active and draws: every card on the side's board (not held by mind *)
(* control) takes the damage of its infection and drain effects, also of   *)
(* those with one turn remaining; a card brought to health 0 is in the     *)
(* graveyard, off the board and reported dead; a surviving card keeps its  *)
(* effects with one turn less and loses those that had one turn remaining. *)
C26_StartTurnInOrder ==
    [][match'.turnCounter = match.turnCounter + 1 =>
       Then(match'.activeRole, LAMBDA side :
           /\ side = enemyRoleOf(match.activeRole)
           /\ events' # <<>> /\ events'[1].type = "turnStart" /\ events'[1].role = side
           /\ \A k \in 1..Len(Positions) :
                  Then(SlotAt(state[side], Positions[k]), LAMBDA slot :
                  Then(SlotAt(state'[side], Positions[k]), LAMBDA after :
                      \/ slot = <<>>
                      \/ slot[1].controlReleaseTurn # 0
                      \/ IF HpAfterTurnStart(slot[1]) <= 0
                         THEN /\ after = <<>>
                              /\ slot[1].instanceId \in IdsOf(state'[side].graveyard)
                              /\ slot[1].instanceId \in DeathsListed
                         ELSE /\ after # <<>>
                              /\ after[1].instanceId = slot[1].instanceId
                              /\ after[1].hp = HpAfterTurnStart(slot[1])
                              /\ {<<after[1].statusEffects[i].id,
                                    after[1].statusEffects[i].turnsLeft>> :
                                      i \in 1..Len(after[1].statusEffects)}
                                     = EffectsAfterTurnStart(slot[1]))))]_vars

(* A turn has started with the death of a card that its infection, with   *)
(* one turn remaining, brought to health 0: the card lies in the graveyard *)
(* with that effect still on it, and the side is active.                   *)
C26_Witness ==
    /\ last.res = "ok"
    /\ events # <<>> /\ events[1].type = "turnStart" /\ events[1].role = match.activeRole
    /\ \E e \in 1..Len(events) : events[e].type = "death"
    /\ \E k \in 1..Len(state[match.activeRole].graveyard) :
           LET card == state[match.activeRole].graveyard[k] IN
           \E i \in 1..Len(card.statusEffects) :
               card.statusEffects[i].type = "infection"
                   /\ card.statusEffects[i].turnsLeft = 1


(* C27: an accepted endTurn by a side adds END_TURN_PA_GAIN action points, *)
(* up to the card's maximum, to each card on that side's board and leaves  *)
(* that side's hand, deck and graveyard as they were; the pools of both    *)
(* sides are reset to MAX_PI when the side is p2 and keep their values     *)
(* when it is p1.                                                          *)
C27_EndTurnRegeneration ==
    [][match'.turnCounter = match.turnCounter + 1 =>
       Then(match.activeRole, LAMBDA side :
           /\ \A k \in 1..Len(Positions) :
                  Then(SlotAt(state[side], Positions[k]), LAMBDA slot :
                  Then(SlotAt(state'[side], Positions[k]), LAMBDA after :
                      IF slot = <<>> THEN after = <<>>
                      ELSE /\ after # <<>>
                           /\ after[1].instanceId = slot[1].instanceId
                           /\ after[1].pa
                                  = Min(slot[1].maxPa, slot[1].pa + END_TURN_PA_GAIN)))
           /\ state'[side].hand = state[side].hand
           /\ state'[side].deck = state[side].deck
           /\ state'[side].graveyard = state[side].graveyard
           /\ \A r \in Roles :
                  IF side = "p2"
                  THEN state'[r].pi = MAX_PI /\ state'[r].maxPi = MAX_PI
                  ELSE state'[r].pi = state[r].pi /\ state'[r].maxPi = state[r].maxPi)]_vars

(* p2 has ended the second turn of a match in which both sides had played  *)
(* a card: both pools are full again and p1 still holds cards in its hand. *)
C27_Witness ==
    /\ last = [role |-> "p2", res |-> "ok"]
    /\ events # <<>> /\ events[1].type = "turnStart"
    /\ BoardCards(state.p1) # <<>> /\ BoardCards(state.p2) # <<>>
    /\ state.p2.hand # <<>>
    /\ state.p1.pi = MAX_PI /\ state.p2.pi = MAX_PI
    /\ \E k \in 1..Len(BoardCards(state.p2)) :
           BoardCards(state.p2)[k].pa
               = CARD_DB[BoardCards(state.p2)[k].dbId].enterPA + END_TURN_PA_GAIN


-----------------------------------------------------------------------------
(* Claims on shields.                                                      *)

(* The values of the shield effects attached to a card, added up. *)
ShieldEffectsTotal(card) ==
    SumSeq([k \in 1..Len(card.statusEffects) |->
               IF card.statusEffects[k].type = "shield"
               THEN card.statusEffects[k].value ELSE 0])

-----------------------------------------------------------------------------
(* Claims on suppression.                                                  *)

Exempt(e) == MetaFlag(e, "ignoreSuppression") \/ MetaFlag(e, "permanent")

(* The room and the card with nothing but the suppression itself and the   *)
(* exempt effects on the card and on its side.                             *)
ExemptRoom(rm, role) ==
    [rm EXCEPT !.state[role].teamEffects =
        SelectSeq(@, LAMBDA e : Exempt(e) \/ e.type = "suppress_temp_effects")]
ExemptCard(card) ==
    [card EXCEPT !.statusEffects = SelectSeq(@, LAMBDA e : Exempt(e))]

RoomAfter == [state |-> state', match |-> match']

(* The effect e of a card, as it is stored on the card after one step: the *)
(* same, or one turn older.                                                *)
StoredAfter(e, after) ==
    \E k \in 1..Len(after.statusEffects) :
        /\ after.statusEffects[k].id = e.id
        /\ after.statusEffects[k].value = e.value
        /\ after.statusEffects[k].turnsLeft \in {e.turnsLeft, e.turnsLeft - 1}
        /\ after.statusEffects[k].turnsLeft > 0

-----------------------------------------------------------------------------
(* Mind control.  The room is a match in its eleventh turn, played from    *)
(* its start through the handler: p1, active, has L-13 alone on its board, *)
(* p2 has filled nine of its ten slots and holds two U-1.  The ultimate of *)
(* L-13 is applied as executeSupportAction applies it, to a card of p2, to *)
(* a slot of p1 or with no target; p2 plays cards and both sides end turns *)
(* through the handler.  The ultimate can leave one card object in two     *)
(* slots; the turn handlers below treat slots as separate records, so no   *)
(* turn is ended from such a state.                                        *)

MaxControlTurn == 15   \* turns are ended up to this one

Siege ==
    Then(<< EndOfTurn >>, LAMBDA pass :
    Replay(Replay(Replay(Replay(Replay(Replay(Replay(Replay(Replay(Replay(
        MatchStart(<<"L13", "C1", "R1", "C1", "U1", "R1", "C1", "U1">>,
                   <<"L6", "C1", "L2", "C1", "L3", "C1", "E1", "R1", "R1",
                     "U1", "U1", "U1">>),
        "p1", << PlayAt(Front(0)), EndOfTurn >>),
        "p2", << PlayAt(Front(0)), PlayAt(Front(1)), EndOfTurn >>), "p1", pass),
        "p2", << PlayAt(Front(2)), PlayAt(Front(3)), EndOfTurn >>), "p1", pass),
        "p2", << PlayAt(Front(4)), PlayAt(Back(0)), EndOfTurn >>), "p1", pass),
        "p2", << PlayAt(Back(1)), PlayAt(Back(2)), EndOfTurn >>), "p1", pass),
        "p2", << PlayAt(Back(3)), EndOfTurn >>))

ControlTargets ==
    {<<>>} \cup {<<[role |-> r, pos |-> Front(i)]>> : r \in {"p1", "p2"}, i \in {0, 1}}

ControlNext ==
    \/ \E from \in {Front(0)}, target \in ControlTargets :
       \E slot \in {SlotAt(state.p1, from)} :
           /\ match.activeRole = "p1"
           /\ slot # <<>>
           /\ slot[1].dbId = "L13"
           /\ target # <<>> /\ target[1].role = "p2"
                  => SlotAt(state.p2, target[1].pos) # <<>>
           /\ state' = L13Control(Room, slot[1], target).rm.state
           /\ events' = <<>>
           /\ UNCHANGED <<match, sync, last, down, players, replies>>
           /\ UNCHANGED <<redis, handlers, emitted, playings, engine, answer>>
    \/ \E pos \in {Front(0), Front(1), Back(4)} :
           /\ match.activeRole = "p2"
           /\ PlayCard("p2", pos.line, pos.index, 0)
    \/ /\ match.turnCounter < MaxControlTurn
       /\ ~ \E a \in Places, b \in Places :
               /\ a # b
               /\ SlotAt(state[a.role], a.pos) # <<>>
               /\ SlotAt(state[b.role], b.pos) # <<>>
               /\ SlotAt(state[a.role], a.pos)[1].instanceId
                      = SlotAt(state[b.role], b.pos)[1].instanceId
       /\ Handle(match.activeRole, [type |-> "endTurn"], 0, 0)

ControlSpec == Started(Siege, "p2") /\ [][ControlNext]_vars


-----------------------------------------------------------------------------
(* Claims on mind control.                                                 *)

(* The card id is, after the step, free again in slot q of side home. *)
ReturnedTo(home, q, id) ==
    Then(SlotAt(state'[home], q), LAMBDA after :
        /\ after # <<>>
        /\ after[1].instanceId = id
        /\ after[1].owner = home
        /\ after[1].controlReleaseTurn = 0
        /\ after[1].controlledBy = NoRole)

(* The slots of side home that are empty before the step. *)
FreeSlots(home) == {k \in 1..Len(Positions) : SlotAt(state[home], Positions[k]) = <<>>}

(* What a turn start does with the controlled card of slot pos of side     *)
(* role: nothing before its release turn; from then on the card goes to    *)
(* its original slot, empty when the turn was ended; or, that slot being   *)
(* occupied then or taken by a card returned just before, to another slot  *)
(* that was empty; or it stays, every slot that was empty being taken.     *)
ReleaseDue(role, pos, card) ==
    Then(card.controlOrigin[1], LAMBDA origin :
    Then(SlotAt(state'[role], pos), LAMBDA after :
    IF match'.turnCounter < card.controlReleaseTurn
    THEN after # <<>> /\ after[1].instanceId = card.instanceId
             /\ after[1].controlReleaseTurn = card.controlReleaseTurn
    ELSE \/ /\ SlotAt(state[origin.owner], origin.pos[1]) = <<>>
            /\ ReturnedTo(origin.owner, origin.pos[1], card.instanceId)
            /\ after = <<>>
         \/ /\ \/ SlotAt(state[origin.owner], origin.pos[1]) # <<>>
               \/ /\ SlotAt(state'[origin.owner], origin.pos[1]) # <<>>
                  /\ ~ReturnedTo(origin.owner, origin.pos[1], card.instanceId)
            /\ \E k \in FreeSlots(origin.owner) :
                   ReturnedTo(origin.owner, Positions[k], card.instanceId)
            /\ after = <<>>
         \/ /\ after # <<>> /\ after[1].instanceId = card.instanceId
            /\ after[1].controlReleaseTurn = card.controlReleaseTurn
            /\ \A k \in FreeSlots(origin.owner) :
                   SlotAt(state'[origin.owner], Positions[k]) # <<>>))

-----------------------------------------------------------------------------
(* Claims on the target of mind control.                                   *)

Unmoved ==
    \A pl \in Places :
        Then(SlotAt(state[pl.role], pl.pos), LAMBDA slot :
        Then(SlotAt(state'[pl.role], pl.pos), LAMBDA after :
            /\ (slot = <<>>) <=> (after = <<>>)
            /\ slot # <<>> => /\ after[1].instanceId = slot[1].instanceId
                              /\ after[1].owner = slot[1].owner))

-----------------------------------------------------------------------------
(* Summoning from the graveyard.  The room is a match in its seventh turn,  *)
(* played from its start through the handler: both sides have L-13 on the   *)
(* board with 9 action points, p1 has killed three C-1 of p2.  The skill    *)
(* and the ultimate of L-13 are applied by the active side as applyAction   *)
(* applies them past line 1019; turns are ended through the handler.        *)

MaxNecroTurn == 10   \* turns are ended up to this one

Crypt ==
    Replay(Replay(Replay(Replay(Replay(Replay(
        MatchStart(<<"L1", "C1", "L13", "C1", "R1", "R1", "C1", "E1">>,
                   <<"C1", "C1", "L13", "C1", "R1", "R1", "C1", "E1">>),
        "p1", << PlayAt(Front(0)), PlayAt(Front(1)), EndOfTurn >>),
        "p2", << PlayAt(Front(0)), PlayAt(Front(1)), EndOfTurn >>),
        "p1", << PlayAt(Front(2)), PlayAt(Front(3)), Hit(Front(0), Front(0)),
                 Hit(Front(0), Front(0)), Hit(Front(0), Front(1)),
                 Hit(Front(1), Front(1)), Hit(Front(1), Front(1)), EndOfTurn >>),
        "p2", << PlayAt(Front(2)), PlayAt(Front(3)), EndOfTurn >>),
        "p1", << Hit(Front(0), Front(3)), Hit(Front(3), Front(3)), EndOfTurn >>),
        "p2", << EndOfTurn >>)

NecroNext ==
    \/ \E target \in {<<>>} \cup {<<[role |-> r, graveyardIndex |-> i]>> :
                                     r \in Roles, i \in {0, 1}} :
           /\ state' = applySupportAction(Room, match.activeRole, Front(2), target,
                                          "skill", 0).rm.state
           /\ events' = <<>>
           /\ UNCHANGED <<match, sync, last, down, players, replies>>
           /\ UNCHANGED <<redis, handlers, emitted, playings, engine, answer>>
    \/ \E pos \in {Front(0), Front(1), Front(4), Back(0)} :
           /\ SlotAt(state[enemyRoleOf(match.activeRole)], pos) # <<>>
           /\ state' = applySupportAction(Room, match.activeRole, Front(2),
                          <<[role |-> enemyRoleOf(match.activeRole), pos |-> pos]>>,
                          "ult", 0).rm.state
           /\ events' = <<>>
           /\ UNCHANGED <<match, sync, last, down, players, replies>>
           /\ UNCHANGED <<redis, handlers, emitted, playings, engine, answer>>
    \/ /\ match.turnCounter < MaxNecroTurn
       /\ Handle(match.activeRole, [type |-> "endTurn"], 0, 0)

NecroSpec == Started(Crypt, "p2") /\ [][NecroNext]_vars

-----------------------------------------------------------------------------
(* Claims on summoning.                                                     *)

Summoned(ps) == SelectSeq(BoardCards(ps), LAMBDA c : c.isNecroSummon)

-----------------------------------------------------------------------------
(* Healing and grants of action points.  The room is a match in its         *)
(* seventh turn, played from its start through the handler: p1 has L-4      *)
(* (health 325 of 350, 11 action points), L-16 and L-14 on the board, p2    *)
(* has L-7 (health 380 of 400, 11 action points), L-18 and L-19, each side  *)
(* three C-1.  The active side applies the abilities of its cards as        *)
(* applyAction applies them past line 1019; turns are ended through the     *)
(* handler.                                                                 *)

MaxAbilityTurn == 8   \* turns are ended up to this one

Chapel ==
    Replay(Replay(Replay(Replay(Replay(Replay(
        MatchStart(<<"L4", "C1", "L16", "C1", "L14", "C1", "R1", "R1">>,
                   <<"L7", "C1", "L18", "C1", "L19", "C1", "R1", "R1">>),
        "p1", << PlayAt(Front(0)), PlayAt(Front(1)), EndOfTurn >>),
        "p2", << PlayAt(Front(0)), PlayAt(Front(1)), EndOfTurn >>),
        "p1", << PlayAt(Front(2)), PlayAt(Front(3)), Hit(Front(1), Front(0)),
                 EndOfTurn >>),
        "p2", << PlayAt(Front(2)), PlayAt(Front(3)), Hit(Front(1), Front(0)),
                 EndOfTurn >>),
        "p1", << PlayAt(Front(4)), PlayAt(Back(0)), EndOfTurn >>),
        "p2", << PlayAt(Front(4)), PlayAt(Back(0)), EndOfTurn >>)

AbilityNext ==
    \/ \E from \in {Front(0), Front(2), Front(4)}, actionType \in {"skill", "ult"},
          target \in {<<>>} \cup {<<[role |-> r, pos |-> Front(0)]>> : r \in Roles},
          rnd \in 0..3 :
           /\ <<SlotAt(state[match.activeRole], from)[1].dbId, actionType>> \in
                  {<<"L4", "skill">>, <<"L4", "ult">>, <<"L14", "skill">>,
                   <<"L16", "ult">>, <<"L7", "ult">>, <<"L18", "skill">>,
                   <<"L19", "skill">>}
           /\ rnd # 0 => SlotAt(state[match.activeRole], from)[1].dbId = "L16"
           /\ state' = applySupportAction(Room, match.activeRole, from, target,
                                          actionType, rnd).rm.state
           /\ events' = <<>>
           /\ UNCHANGED <<match, sync, last, down, players, replies>>
           /\ UNCHANGED <<redis, handlers, emitted, playings, engine, answer>>
    \/ /\ match.turnCounter < MaxAbilityTurn
       /\ Handle(match.activeRole, [type |-> "endTurn"], 0, 0)

AbilitySpec == Started(Chapel, "p2") /\ [][AbilityNext]_vars

-----------------------------------------------------------------------------
(* Claims on healing and on grants of action points.                        *)

-----------------------------------------------------------------------------
(* Claims on the roles of a room.                                           *)

(* C36: whenever the room holds two participants and a match, one of them   *)
(* has role p1 and the other role p2.                                       *)
C36_BothRolesHeld ==
    (Len(players) = 2 /\ match.turnCounter >= 1) =>
        {players[1].role, players[2].role} = Roles

(* The first participant has left and joined again: both participants hold  *)
(* role p2, the match is dealt anew and the side p1 has no card at all.     *)
C36_Witness ==
    /\ Len(players) = 2
    /\ players[1].role = "p2"
    /\ players[2].role = "p2"
    /\ match.turnCounter = 1
    /\ state.p1.hand = <<>>
    /\ state.p1.deck = <<>>


-----------------------------------------------------------------------------
(* Claims on the snapshots after an intent.                                 *)

(* C37: after every handled intent, whatever it changed, the last snapshot  *)
(* each participant has received is the redaction of the authoritative      *)
(* state as it is, with its active side and round: a change of the state    *)
(* is always followed by a game:sync to both sides within the same handler. *)
C37_SnapshotsFollowState ==
    \A viewer \in Roles :
        /\ sync[viewer] # <<>>
        /\ sync[viewer][1].state = redactStateForRole(state, viewer).clone
        /\ sync[viewer][1].activeRole = match.activeRole
        /\ sync[viewer][1].round = match.round

(* An ability intent has counted a use on a card of the board and stopped   *)
(* at line 1019: the snapshot its owner holds still shows the card without  *)
(* the use.                                                                 *)
C37_Witness ==
    /\ last.res = "threw"
    /\ \E viewer \in Roles, k \in 1..Len(Positions) :
           Then(SlotAt(state[viewer], Positions[k]), LAMBDA slot :
           Then(SlotAt(sync[viewer][1].state[viewer], Positions[k]), LAMBDA seen :
               /\ slot # <<>>
               /\ seen # <<>>
               /\ seen[1].instanceId = slot[1].instanceId
               /\ seen[1].turnActionUses # slot[1].turnActionUses))


-----------------------------------------------------------------------------
(* The Redis-backed lobby, src/unnamed/part_003.                           *)
(*                                                                         *)
(* Redis holds one value, the rooms list (ROOMS_KEY).  getRooms (lines     *)
(* 22-25) hands each handler a private copy of the whole list, parsed from *)
(* the value stored when Redis answers the GET; saveRooms (lines 27-29)    *)
(* replaces the stored value with the handler's copy as it is when the     *)
(* handler calls saveRooms.  A handler runs without interruption between   *)
(* two awaits, so it is suspended at its GET, at each SET, and at the GET  *)
(* of broadcastRooms.  Each step below is one Redis command taking effect  *)
(* followed by the handler's code up to its next await; that code touches  *)
(* the handler's own copy and the sockets only.                            *)
(*                                                                         *)
(* create_room and join_room are taken whole, before the first set_ready,  *)
(* and nobody leaves: the room of the set_ready handlers has its two       *)
(* players throughout.                                                     *)

MaxHandlers == 3       \* set_ready messages received by the server

(* create_room, lines 75-91. *)
create_room(socket) ==
    /\ redis = <<>>
    /\ redis' = Append(redis, [id |-> "room_1",
                               players |-> <<[id |-> socket, name |-> "Player 1",
                                              ready |-> FALSE, deck |-> "null"]>>,
                               status |-> "waiting", started |-> FALSE])
    /\ UNCHANGED <<handlers, emitted, playings>>

(* join_room, lines 94-111. *)
join_room(socket, roomId) ==
    /\ handlers = <<>>
    /\ \E k \in 1..Len(redis) :
           /\ redis[k].id = roomId
           /\ \A j \in 1..(k - 1) : redis[j].id # roomId
           /\ Len(redis[k].players) < 2
           /\ redis' = [redis EXCEPT ![k].players =
                            Append(@, [id |-> socket, name |-> "Player 2",
                                       ready |-> FALSE, deck |-> "null"])]
    /\ UNCHANGED <<handlers, emitted, playings>>

(* A set_ready message of socket arrives (line 114): the handler starts    *)
(* and waits for the answer to its GET.                                    *)
Receive(socket, ready, deck) ==
    /\ Len(handlers) < MaxHandlers
    /\ \E k \in 1..Len(redis) : Len(redis[k].players) = 2
    /\ handlers' = Append(handlers, [socket |-> socket, ready |-> ready, deck |-> deck,
                                     at |-> "getRooms", rooms |-> <<>>])
    /\ UNCHANGED <<redis, emitted, playings>>

(* set_ready, lines 114-171: the next step of the h-th handler.  Turned is  *)
(* how often a stored room turns 'playing' when the stored list changes.   *)
set_ready(h) ==
    LET me == handlers[h]
        Mine(rooms) == {k \in 1..Len(rooms) :
                           \E i \in 1..Len(rooms[k].players) :
                               rooms[k].players[i].id = me.socket}
        Found(rooms) == CHOOSE k \in Mine(rooms) : \A j \in Mine(rooms) : k <= j
        At(pc, rooms) == [handlers EXCEPT ![h].at = pc, ![h].rooms = rooms]
        Turned(before, after) ==
            Cardinality({k \in 1..Len(after) :
                            /\ after[k].status = "playing"
                            /\ k \in 1..Len(before) => before[k].status # "playing"})
    IN  /\ h \in 1..Len(handlers)
        /\ \/ /\ me.at = "getRooms"                              \* lines 115-124
              /\ IF Mine(redis) = {}
                 THEN handlers' = At("done", redis)
                 ELSE handlers' =
                          At("saveRooms",
                             [redis EXCEPT ![Found(redis)].players =
                                 [i \in 1..Len(@) |->
                                     IF @[i].id = me.socket /\ \A j \in 1..(i - 1) :
                                                                   @[j].id # me.socket
                                     THEN [@[i] EXCEPT !.ready = me.ready,
                                                       !.deck = me.deck]
                                     ELSE @[i]]])
              /\ UNCHANGED <<redis, emitted, playings>>
           \/ /\ me.at = "saveRooms"                             \* lines 124-139
              /\ redis' = me.rooms
              /\ playings' = playings + Turned(redis, me.rooms)
              /\ \E room \in {me.rooms[Found(me.rooms)]} :
                     IF /\ Len(room.players) = 2
                        /\ \A i \in 1..Len(room.players) : room.players[i].ready
                        /\ room.status # "playing"
                        /\ ~room.started
                     THEN handlers' = At("saveStarted",
                                         [me.rooms EXCEPT ![Found(me.rooms)].status = "playing",
                                                          ![Found(me.rooms)].started = TRUE])
                     ELSE handlers' = At("broadcastRooms", me.rooms)
              /\ UNCHANGED emitted
           \/ /\ me.at = "saveStarted"                           \* lines 139-143
              /\ redis' = me.rooms
              /\ playings' = playings + Turned(redis, me.rooms)
              /\ handlers' = At("broadcastStarted", me.rooms)
              /\ UNCHANGED emitted
           \/ /\ me.at = "broadcastStarted"                      \* lines 143-166
              /\ \E room \in {me.rooms[Found(me.rooms)]} :
                     emitted' = emitted \o
                         <<[event |-> "match_start", to |-> room.players[1].id,
                            matchId |-> room.id, yourRole |-> "A"],
                           [event |-> "match_start", to |-> room.players[2].id,
                            matchId |-> room.id, yourRole |-> "B"]>>
              /\ handlers' = At("done", me.rooms)
              /\ UNCHANGED <<redis, playings>>
           \/ /\ me.at = "broadcastRooms"                        \* line 170
              /\ handlers' = At("done", me.rooms)
              /\ UNCHANGED <<redis, emitted, playings>>

LobbyNext ==
    \/ /\ create_room("s1")
       /\ UNCHANGED <<state, match, sync, events, last, down, players, replies, engine, answer>>
    \/ /\ join_room("s2", "room_1")
       /\ UNCHANGED <<state, match, sync, events, last, down, players, replies, engine, answer>>
    \/ /\ \E socket \in {"s1", "s2"}, ready \in BOOLEAN : Receive(socket, ready, "deck")
       /\ UNCHANGED <<state, match, sync, events, last, down, players, replies, engine, answer>>
    \/ /\ \E h \in 1..MaxHandlers : set_ready(h)
       /\ UNCHANGED <<state, match, sync, events, last, down, players, replies, engine, answer>>

LobbySpec == Started(Skirmish, "p1") /\ [][LobbyNext]_vars

(* The match_start messages sent so far to the player with this socket. *)
StartsTo(socket) ==
    Cardinality({k \in 1..Len(emitted) : emitted[k].to = socket})

(* C34: match_start is emitted at most once for each time the stored room  *)
(* became 'playing', whatever the interleaving of the set_ready handlers.  *)
C34_OneStartPerPlaying ==
    \A socket \in {"s1", "s2"} : StartsTo(socket) <= playings

(* Two match_start messages reached each player while the stored room      *)
(* turned 'playing' once; every handler has returned.                      *)
C34_Witness ==
    /\ playings = 1
    /\ StartsTo("s1") = 2 /\ StartsTo("s2") = 2
    /\ \A h \in 1..Len(handlers) : handlers[h].at = "done"

(* The two players have each sent one set_ready with ready = true, nothing *)
(* else was sent, and both handlers have returned.                         *)
BothSentReady ==
    /\ Len(handlers) = 2
    /\ {handlers[1].socket, handlers[2].socket} = {"s1", "s2"}
    /\ \A h \in 1..2 : handlers[h].ready /\ handlers[h].at = "done"

(* C35: when both players of the room have sent set_ready with ready =     *)
(* true, the stored room ends with both players ready and match_start has  *)
(* been emitted to both, whatever the interleaving of the two handlers.    *)
C35_BothReadyStart ==
    BothSentReady =>
        /\ \A i \in 1..2 : redis[1].players[i].ready
        /\ StartsTo("s1") >= 1 /\ StartsTo("s2") >= 1

(* Both handlers have returned, the stored room has lost the ready flag of *)
(* the first player and no match_start was emitted.                        *)
C35_Witness ==
    /\ BothSentReady
    /\ ~redis[1].players[1].ready /\ redis[1].players[2].ready
    /\ emitted = <<>>


-----------------------------------------------------------------------------
(* The game_engine / match modules, src/game_engine.js and src/match.js,   *)
(* with the constants of shared_constants (src/unnamed/part_001).          *)
(*                                                                         *)
(* engine is match.state of the one match held by the matches map, <<>>    *)
(* before createMatch.  A field is the object keyed by "r-c", here a       *)
(* function of the keys <<r, c>> in use.  A uid is <<ownerId, uidCounter>> *)
(* (line 28); r and c are -1 and hasActed is "undefined" until the code    *)
(* sets them.  An absent payload member is <<>>, a position is <<>> or     *)
(* <<[r, c]>>, the avatar target is <<"opp_avatar">>.  applyIntent changes *)
(* the state object in place: what it returns on an error carries the      *)
(* state as it is at that return, and handleIntent leaves that object in   *)
(* match.state.  The id and seed of the state, the flags and the rng of a  *)
(* player are not read by any intent and are left out.                     *)

PLAYER_FRONT_ROW == 2
PLAYER_BACK_ROW == 3
OPP_FRONT_ROW == 1
OPP_BACK_ROW == 0
STARTING_HP == 1000
STARTING_DEF == 20
STARTING_PI == 7
STARTING_HAND == 5
DRAW_PER_TURN == 2

MaxEngineTurn == 3     \* END_TURN is sent while state.turn is below this
MaxEngineLog == 5      \* intents are sent while state.logs is shorter than this

(* drawCard, lines 110-115; the caller tests the deck for the null it      *)
(* returns.                                                                *)
engineDrawCard(entity) ==
    IF Len(entity.deck) = 0 THEN entity
    ELSE [entity EXCEPT !.deck = SubSeq(@, 1, Len(@) - 1),
                        !.hand = Append(@, entity.deck[Len(entity.deck)])]

(* resetTurnResources, lines 117-124. *)
resetTurnResources(entity) ==
    [entity EXCEPT !.pi = STARTING_PI,
                   !.field = [k \in DOMAIN @ |->
                                 [@[k] EXCEPT !.pa = Min(10, @ + 2),
                                              !.hasActed = "false",
                                              !.turnActionUses = [skill |-> 0, ult |-> 0]]]]

(* createMatchState, lines 283-308, for decks given as lists of card       *)
(* objects (buildDeck, lines 53-59, keeps their order); first is the side  *)
(* rng() > 0.5 picks; uidCounter starts at 0.                              *)
createMatchState(roomPlayers, first, decks) ==
    LET createCardInstance(card, ownerId, uidCounter) ==
            [uid |-> <<ownerId, uidCounter>>, owner |-> ownerId, originalOwner |-> ownerId,
             name |-> card.name, rarity |-> card.rarity, piCost |-> card.piCost,
             effectType |-> card.effectType, hp |-> card.hp, atk |-> card.atk,
             def |-> card.def, currentHp |-> card.hp, currentAtk |-> card.atk,
             currentDef |-> card.def, pa |-> card.pa, statusEffects |-> <<>>,
             turnActionUses |-> [skill |-> 0, ult |-> 0],
             r |-> 0 - 1, c |-> 0 - 1, hasActed |-> "undefined"]
        buildDeckOf(deckList, ownerId, uidCounter) ==
            [i \in 1..Len(deckList) |->
                createCardInstance(deckList[i], ownerId, uidCounter + i - 1)]
        createPlayerState(player, deck) ==
            [id |-> player.id, name |-> player.name, hp |-> STARTING_HP,
             maxHp |-> STARTING_HP, def |-> STARTING_DEF, pi |-> STARTING_PI,
             hand |-> <<>>, deck |-> deck, gy |-> <<>>, field |-> <<>>]
        RECURSIVE Draws(_, _)
        Draws(entity, n) == IF n = 0 THEN entity ELSE Draws(engineDrawCard(entity), n - 1)
        p1 == roomPlayers[1]
        p2 == roomPlayers[2]
        dealt == [turn |-> 1, activePlayerId |-> first, turnOrder |-> <<p1.id, p2.id>>,
                  players |-> (p1.id :> Draws(createPlayerState(
                                              p1, buildDeckOf(decks[p1.id], p1.id, 0)),
                                              STARTING_HAND))
                              @@ (p2.id :> Draws(createPlayerState(
                                              p2, buildDeckOf(decks[p2.id], p2.id,
                                                              Len(decks[p1.id]))),
                                              STARTING_HAND)),
                  logs |-> <<>>]
    IN  [dealt EXCEPT !.players[first] = resetTurnResources(@)]

(* validateIntent, lines 138-142; intent is <<>> when none was sent. *)
validateIntent(st, playerId, intent) ==
    IF st = <<>> \/ intent = <<>> THEN [ok |-> FALSE, error |-> "Intent inválida."]
    ELSE IF st[1].activePlayerId # playerId THEN [ok |-> FALSE, error |-> "Não é seu turno."]
    ELSE [ok |-> TRUE, error |-> ""]

(* applyIntent with the action points of the attacker taken before the    *)
(* target is looked up.                                                    *)
applyIntent_PaysBeforeTarget(st, playerId, intent) ==
    LET opponentId == IF st.turnOrder[1] # playerId THEN st.turnOrder[1]
                      ELSE st.turnOrder[2]
        player == st.players[playerId]
        opponent == st.players[opponentId]
        payload == intent.payload
        isPlayerRow(row) ==
            IF st.turnOrder[1] = playerId
            THEN row = PLAYER_FRONT_ROW \/ row = PLAYER_BACK_ROW
            ELSE row = OPP_FRONT_ROW \/ row = OPP_BACK_ROW
        calcDamage(attacker, defender, ignoreDef) ==
            Max(0, IF ignoreDef THEN attacker.currentAtk
                   ELSE Max(0, attacker.currentAtk - defender.currentDef))
        InHand(uid) == {i \in 1..Len(player.hand) : player.hand[i].uid = uid}
        OnField(field, uid) == {k \in DOMAIN field : field[k].uid = uid}
        Without(field, key) == [k \in (DOMAIN field) \ {key} |-> field[k]]
        Error(s, message) ==
            [error |-> message, newState |-> s, events |-> <<>>, logLines |-> <<>>]
        Done(s, event, message) ==
            [error |-> "", newState |-> [s EXCEPT !.logs = Append(@, message)],
             events |-> <<event>>, logLines |-> <<message>>]
    IN  CASE intent.type = "PLAY_CARD" ->
            IF InHand(payload.cardInstanceId) = {}
            THEN Error(st, "Carta não encontrada na mão.")
            ELSE LET cardIdx == CHOOSE i \in InHand(payload.cardInstanceId) :
                                    \A j \in InHand(payload.cardInstanceId) : i <= j
                     card == player.hand[cardIdx]
                     position == payload.position
                 IN  IF card.rarity = "utility"
                     THEN Error(st, "Use cartas utilitárias com USE_UTILITY.")
                     ELSE IF player.pi < card.piCost THEN Error(st, "PI insuficiente.")
                     ELSE IF position = <<>> THEN Error(st, "Posição inválida.")
                     ELSE IF ~isPlayerRow(position[1].r) THEN Error(st, "Linha inválida.")
                     ELSE IF <<position[1].r, position[1].c>>
                                 \in (DOMAIN player.field) \cup (DOMAIN opponent.field)
                          THEN Error(st, "Slot ocupado.")
                     ELSE Done([st EXCEPT
                                   !.players[playerId].hand =
                                       SubSeq(@, 1, cardIdx - 1)
                                           \o SubSeq(@, cardIdx + 1, Len(@)),
                                   !.players[playerId].pi = @ - card.piCost,
                                   !.players[playerId].field =
                                       (<<position[1].r, position[1].c>>
                                            :> [card EXCEPT !.r = position[1].r,
                                                            !.c = position[1].c]) @@ @],
                               <<"summon", card.uid, position>>,
                               <<player.name, "invocou", card.name>>)
          [] intent.type = "USE_UTILITY" ->
            IF InHand(payload.cardInstanceId) = {}
            THEN Error(st, "Carta utilitária não encontrada.")
            ELSE LET cardIdx == CHOOSE i \in InHand(payload.cardInstanceId) :
                                    \A j \in InHand(payload.cardInstanceId) : i <= j
                     card == player.hand[cardIdx]
                     mine == OnField(player.field, payload.targetId)
                     theirs == OnField(opponent.field, payload.targetId)
                     side == IF mine # {} THEN playerId ELSE opponentId
                     key == CHOOSE k \in (IF mine # {} THEN mine ELSE theirs) : TRUE
                     target == st.players[side].field[key]
                     spent == [st EXCEPT
                                  !.players[playerId].hand =
                                      SubSeq(@, 1, cardIdx - 1)
                                          \o SubSeq(@, cardIdx + 1, Len(@)),
                                  !.players[playerId].pi = @ - card.piCost]
                 IN  IF card.rarity # "utility" THEN Error(st, "Carta não é utilitária.")
                     ELSE IF player.pi < card.piCost THEN Error(st, "PI insuficiente.")
                     ELSE IF mine = {} /\ theirs = {} THEN Error(st, "Alvo inválido.")
                     ELSE IF card.effectType = "add_pa"
                          THEN Done([spent EXCEPT !.players[side].field[key].pa =
                                                      Min(10, @ + 3)],
                                    <<"utility", card.uid, target.uid>>,
                                    <<player.name, "usou", card.name, "em", target.name,
                                      "(+3 PA)">>)
                     ELSE Done(spent, <<"utility", card.uid, target.uid>>,
                               <<player.name, "usou", card.name, "em", target.name>>)
          [] intent.type \in {"ATTACK", "USE_SKILL", "USE_ULT"} ->
            IF OnField(player.field, payload.attackerId) = {}
            THEN Error(st, "Atacante inválido.")
            ELSE LET from == CHOOSE k \in OnField(player.field, payload.attackerId) : TRUE
                     attacker == player.field[from]
                     action == IF intent.type = "ATTACK" THEN "attack"
                               ELSE IF intent.type = "USE_SKILL" THEN "skill" ELSE "ult"
                     cost == IF action = "attack" THEN 2
                             ELSE IF action = "skill" THEN 4 ELSE 7
                     targetIsAvatar == payload.targetId = <<"opp_avatar">>
                     theirs == OnField(opponent.field, payload.targetId)
                     mine == OnField(player.field, payload.targetId)
                     side == IF theirs # {} THEN opponentId ELSE playerId
                     key == CHOOSE k \in (IF theirs # {} THEN theirs ELSE mine) : TRUE
                     paid == [st EXCEPT !.players[playerId].field[from].pa = @ - cost]
                     damage == IF targetIsAvatar THEN Max(0, attacker.currentAtk)
                               ELSE calcDamage(attacker, paid.players[side].field[key],
                                               action # "attack")
                     hurt == [paid EXCEPT !.players[side].field[key].currentHp =
                                              Max(0, @ - damage)]
                     target == hurt.players[side].field[key]
                     ownerId == IF target.owner = playerId THEN playerId ELSE opponentId
                 IN  IF attacker.pa < cost THEN Error(st, "PA insuficiente.")
                     ELSE IF targetIsAvatar
                          THEN Done([paid EXCEPT !.players[opponentId].hp =
                                                     Max(0, @ - damage)],
                                    <<action, attacker.uid, payload.targetId>>,
                                    <<player.name, "atacou o avatar de", opponent.name,
                                      "causando", damage>>)
                     ELSE IF theirs = {} /\ mine = {} THEN Error(paid, "Alvo inválido.")
                     ELSE Done(IF target.currentHp <= 0
                               THEN [hurt EXCEPT
                                        !.players[ownerId].field =
                                            Without(@, <<target.r, target.c>>),
                                        !.players[ownerId].gy = Append(@, target)]
                               ELSE hurt,
                               <<action, attacker.uid, payload.targetId>>,
                               <<player.name, "usou", action, "em", target.name,
                                 "causando", damage>>)
          [] intent.type \in {"MOVE_CARD", "CONTROL_MOVE"} ->
            IF OnField(player.field, payload.sourceId) = {}
            THEN Error(st, "Carta inválida.")
            ELSE LET from == CHOOSE k \in OnField(player.field, payload.sourceId) : TRUE
                     card == player.field[from]
                     position == payload.position
                 IN  IF player.pi < 1 THEN Error(st, "PI insuficiente.")
                     ELSE IF position = <<>> THEN Error(st, "Posição inválida.")
                     ELSE IF ~isPlayerRow(position[1].r) THEN Error(st, "Linha inválida.")
                     ELSE IF <<position[1].r, position[1].c>>
                                 \in (DOMAIN player.field) \cup (DOMAIN opponent.field)
                          THEN Error(st, "Slot ocupado.")
                     ELSE Done([st EXCEPT
                                   !.players[playerId].field =
                                       (<<position[1].r, position[1].c>>
                                            :> [card EXCEPT !.r = position[1].r,
                                                            !.c = position[1].c])
                                       @@ Without(@, <<card.r, card.c>>),
                                   !.players[playerId].pi = @ - 1],
                               <<"move", card.uid, position>>,
                               <<player.name, "moveu", card.name>>)
          [] intent.type = "DRAW_CARD" ->
            IF Len(player.deck) = 0 THEN Error(st, "Deck vazio.")
            ELSE Done([st EXCEPT !.players[playerId] = engineDrawCard(@)],
                      <<"draw", playerId>>, <<player.name, "comprou uma carta.">>)
          [] intent.type = "END_TURN" ->
            LET RECURSIVE Draws(_, _)
                Draws(entity, n) ==
                    IF n = 0 THEN entity ELSE Draws(engineDrawCard(entity), n - 1)
            IN  Done([st EXCEPT !.activePlayerId = opponentId,
                                !.turn = @ + 1,
                                !.players[opponentId] =
                                    Draws(resetTurnResources(@), DRAW_PER_TURN)],
                     <<"end_turn", opponentId>>, <<"Turno de", opponent.name>>)
          [] OTHER -> Error(st, "Intent desconhecida.")

(* applyIntent, lines 144-281.  Each return of an error carries the state  *)
(* as the statements before it have left it.                               *)
applyIntent(st, playerId, intent) ==
    LET opponentId == IF st.turnOrder[1] # playerId THEN st.turnOrder[1]
                      ELSE st.turnOrder[2]
        player == st.players[playerId]
        opponent == st.players[opponentId]
        payload == intent.payload
        isPlayerRow(row) ==
            IF st.turnOrder[1] = playerId
            THEN row = PLAYER_FRONT_ROW \/ row = PLAYER_BACK_ROW
            ELSE row = OPP_FRONT_ROW \/ row = OPP_BACK_ROW
        calcDamage(attacker, defender, ignoreDef) ==
            Max(0, IF ignoreDef THEN attacker.currentAtk
                   ELSE Max(0, attacker.currentAtk - defender.currentDef))
        InHand(uid) == {i \in 1..Len(player.hand) : player.hand[i].uid = uid}
        OnField(field, uid) == {k \in DOMAIN field : field[k].uid = uid}
        Without(field, key) == [k \in (DOMAIN field) \ {key} |-> field[k]]
        Error(s, message) ==
            [error |-> message, newState |-> s, events |-> <<>>, logLines |-> <<>>]
        Done(s, event, message) ==
            [error |-> "", newState |-> [s EXCEPT !.logs = Append(@, message)],
             events |-> <<event>>, logLines |-> <<message>>]
    IN  CASE intent.type = "PLAY_CARD" ->
            IF InHand(payload.cardInstanceId) = {}
            THEN Error(st, "Carta não encontrada na mão.")
            ELSE LET cardIdx == CHOOSE i \in InHand(payload.cardInstanceId) :
                                    \A j \in InHand(payload.cardInstanceId) : i <= j
                     card == player.hand[cardIdx]
                     position == payload.position
                 IN  IF card.rarity = "utility"
                     THEN Error(st, "Use cartas utilitárias com USE_UTILITY.")
                     ELSE IF player.pi < card.piCost THEN Error(st, "PI insuficiente.")
                     ELSE IF position = <<>> THEN Error(st, "Posição inválida.")
                     ELSE IF ~isPlayerRow(position[1].r) THEN Error(st, "Linha inválida.")
                     ELSE IF <<position[1].r, position[1].c>>
                                 \in (DOMAIN player.field) \cup (DOMAIN opponent.field)
                          THEN Error(st, "Slot ocupado.")
                     ELSE Done([st EXCEPT
                                   !.players[playerId].hand =
                                       SubSeq(@, 1, cardIdx - 1)
                                           \o SubSeq(@, cardIdx + 1, Len(@)),
                                   !.players[playerId].pi = @ - card.piCost,
                                   !.players[playerId].field =
                                       (<<position[1].r, position[1].c>>
                                            :> [card EXCEPT !.r = position[1].r,
                                                            !.c = position[1].c]) @@ @],
                               <<"summon", card.uid, position>>,
                               <<player.name, "invocou", card.name>>)
          [] intent.type = "USE_UTILITY" ->
            IF InHand(payload.cardInstanceId) = {}
            THEN Error(st, "Carta utilitária não encontrada.")
            ELSE LET cardIdx == CHOOSE i \in InHand(payload.cardInstanceId) :
                                    \A j \in InHand(payload.cardInstanceId) : i <= j
                     card == player.hand[cardIdx]
                     mine == OnField(player.field, payload.targetId)
                     theirs == OnField(opponent.field, payload.targetId)
                     side == IF mine # {} THEN playerId ELSE opponentId
                     key == CHOOSE k \in (IF mine # {} THEN mine ELSE theirs) : TRUE
                     target == st.players[side].field[key]
                     spent == [st EXCEPT
                                  !.players[playerId].hand =
                                      SubSeq(@, 1, cardIdx - 1)
                                          \o SubSeq(@, cardIdx + 1, Len(@)),
                                  !.players[playerId].pi = @ - card.piCost]
                 IN  IF card.rarity # "utility" THEN Error(st, "Carta não é utilitária.")
                     ELSE IF player.pi < card.piCost THEN Error(st, "PI insuficiente.")
                     ELSE IF mine = {} /\ theirs = {} THEN Error(st, "Alvo inválido.")
                     ELSE IF card.effectType = "add_pa"
                          THEN Done([spent EXCEPT !.players[side].field[key].pa =
                                                      Min(10, @ + 3)],
                                    <<"utility", card.uid, target.uid>>,
                                    <<player.name, "usou", card.name, "em", target.name,
                                      "(+3 PA)">>)
                     ELSE Done(spent, <<"utility", card.uid, target.uid>>,
                               <<player.name, "usou", card.name, "em", target.name>>)
          [] intent.type \in {"ATTACK", "USE_SKILL", "USE_ULT"} ->
            IF OnField(player.field, payload.attackerId) = {}
            THEN Error(st, "Atacante inválido.")
            ELSE LET from == CHOOSE k \in OnField(player.field, payload.attackerId) : TRUE
                     attacker == player.field[from]
                     action == IF intent.type = "ATTACK" THEN "attack"
                               ELSE IF intent.type = "USE_SKILL" THEN "skill" ELSE "ult"
                     cost == IF action = "attack" THEN 2
                             ELSE IF action = "skill" THEN 4 ELSE 7
                     targetIsAvatar == payload.targetId = <<"opp_avatar">>
                     theirs == OnField(opponent.field, payload.targetId)
                     mine == OnField(player.field, payload.targetId)
                     side == IF theirs # {} THEN opponentId ELSE playerId
                     key == CHOOSE k \in (IF theirs # {} THEN theirs ELSE mine) : TRUE
                     paid == [st EXCEPT !.players[playerId].field[from].pa = @ - cost]
                     damage == IF targetIsAvatar THEN Max(0, attacker.currentAtk)
                               ELSE calcDamage(attacker, paid.players[side].field[key],
                                               action # "attack")
                     hurt == [paid EXCEPT !.players[side].field[key].currentHp =
                                              Max(0, @ - damage)]
                     target == hurt.players[side].field[key]
                     ownerId == IF target.owner = playerId THEN playerId ELSE opponentId
                 IN  IF attacker.pa < cost THEN Error(st, "PA insuficiente.")
                     ELSE IF targetIsAvatar
                          THEN Done([paid EXCEPT !.players[opponentId].hp =
                                                     Max(0, @ - damage)],
                                    <<action, attacker.uid, payload.targetId>>,
                                    <<player.name, "atacou o avatar de", opponent.name,
                                      "causando", damage>>)
                     ELSE IF theirs = {} /\ mine = {} THEN Error(st, "Alvo inválido.")
                     ELSE Done(IF target.currentHp <= 0
                               THEN [hurt EXCEPT
                                        !.players[ownerId].field =
                                            Without(@, <<target.r, target.c>>),
                                        !.players[ownerId].gy = Append(@, target)]
                               ELSE hurt,
                               <<action, attacker.uid, payload.targetId>>,
                               <<player.name, "usou", action, "em", target.name,
                                 "causando", damage>>)
          [] intent.type \in {"MOVE_CARD", "CONTROL_MOVE"} ->
            IF OnField(player.field, payload.sourceId) = {}
            THEN Error(st, "Carta inválida.")
            ELSE LET from == CHOOSE k \in OnField(player.field, payload.sourceId) : TRUE
                     card == player.field[from]
                     position == payload.position
                 IN  IF player.pi < 1 THEN Error(st, "PI insuficiente.")
                     ELSE IF position = <<>> THEN Error(st, "Posição inválida.")
                     ELSE IF ~isPlayerRow(position[1].r) THEN Error(st, "Linha inválida.")
                     ELSE IF <<position[1].r, position[1].c>>
                                 \in (DOMAIN player.field) \cup (DOMAIN opponent.field)
                          THEN Error(st, "Slot ocupado.")
                     ELSE Done([st EXCEPT
                                   !.players[playerId].field =
                                       (<<position[1].r, position[1].c>>
                                            :> [card EXCEPT !.r = position[1].r,
                                                            !.c = position[1].c])
                                       @@ Without(@, <<card.r, card.c>>),
                                   !.players[playerId].pi = @ - 1],
                               <<"move", card.uid, position>>,
                               <<player.name, "moveu", card.name>>)
          [] intent.type = "DRAW_CARD" ->
            IF Len(player.deck) = 0 THEN Error(st, "Deck vazio.")
            ELSE Done([st EXCEPT !.players[playerId] = engineDrawCard(@)],
                      <<"draw", playerId>>, <<player.name, "comprou uma carta.">>)
          [] intent.type = "END_TURN" ->
            LET RECURSIVE Draws(_, _)
                Draws(entity, n) ==
                    IF n = 0 THEN entity ELSE Draws(engineDrawCard(entity), n - 1)
            IN  Done([st EXCEPT !.activePlayerId = opponentId,
                                !.turn = @ + 1,
                                !.players[opponentId] =
                                    Draws(resetTurnResources(@), DRAW_PER_TURN)],
                     <<"end_turn", opponentId>>, <<"Turno de", opponent.name>>)
          [] OTHER -> Error(st, "Intent desconhecida.")

(* handleIntent, lines 23-34 of match.js: what it returns and the state    *)
(* object match.state refers to afterwards.                                *)
handleIntent(st, playerId, intent) ==
    LET validation == validateIntent(st, playerId, intent)
        result == applyIntent(st[1], playerId, intent[1])
    IN  IF ~validation.ok THEN [state |-> st, answer |-> [error |-> validation.error,
                                                          events |-> <<>>, logLines |-> <<>>]]
        ELSE IF result.error # ""
             THEN [state |-> <<result.newState>>,
                   answer |-> [error |-> result.error, events |-> <<>>, logLines |-> <<>>]]
        ELSE [state |-> <<result.newState>>,
              answer |-> [error |-> "", events |-> result.events,
                          logLines |-> result.logLines]]

(* createMatch, lines 5-19 of match.js, for the room of the sockets s1 and *)
(* s2 whose players sent their decks as card objects: seven cards each,    *)
(* the second player's utility card without the add_pa effect.             *)
createMatch(first) ==
    LET Soldier == [name |-> "Soldier", rarity |-> "common", piCost |-> 3, hp |-> 40,
                    atk |-> 50, def |-> 10, pa |-> 5, effectType |-> "none"]
        Potion == [name |-> "Potion", rarity |-> "utility", piCost |-> 2, hp |-> 0,
                   atk |-> 0, def |-> 0, pa |-> 0, effectType |-> "add_pa"]
        Scroll == [Potion EXCEPT !.name = "Scroll", !.effectType = "none"]
    IN  /\ engine = <<>>
        /\ engine' = <<createMatchState(
                          <<[id |-> "s1", name |-> "Ana"], [id |-> "s2", name |-> "Bia"]>>,
                          first,
                          [s1 |-> <<Potion, Soldier, Soldier, Potion, Soldier, Potion,
                                    Soldier>>,
                           s2 |-> <<Scroll, Soldier, Soldier, Scroll, Soldier, Scroll,
                                    Soldier>>])>>
        /\ answer' = <<>>
        /\ UNCHANGED <<state, match, sync, events, last, down, players, replies,
                       redis, handlers, emitted, playings>>

(* match:intent, lines 138-155 of match.js: the call of handleIntent. *)
Send(playerId, intent) ==
    /\ engine # <<>>
    /\ Len(engine[1].logs) < MaxEngineLog
    /\ \E h \in {handleIntent(engine, playerId, intent)} :
           /\ engine' = h.state
           /\ answer' = <<h.answer>>
    /\ UNCHANGED <<state, match, sync, events, last, down, players, replies,
                   redis, handlers, emitted, playings>>

(* The intents sent.  The uids named are each side's top card (a Soldier), *)
(* the sender's utility card next to it and the card left on top of the    *)
(* sender's deck; the positions are column 0 of the four rows, or none;    *)
(* SELECT_TARGET is a type applyIntent has no case for, <<>> no intent.    *)
EngineNext ==
    LET Ids == {"s1", "s2"}
        Own(playerId, k) == <<playerId, (IF playerId = "s1" THEN 0 ELSE 7) + k>>
        Tops == {Own("s1", 6), Own("s2", 6)}
        At(r) == <<[r |-> r, c |-> 0]>>
        Payload(card, attacker, source, target, position) ==
            [cardInstanceId |-> card, attackerId |-> attacker, sourceId |-> source,
             targetId |-> target, position |-> position]
    IN  \/ \E first \in Ids : createMatch(first)
        \/ \E playerId \in Ids, k \in {6, 5, 1},
              position \in {<<>>, At(PLAYER_FRONT_ROW), At(OPP_FRONT_ROW)} :
               /\ engine # <<>>
               /\ Send(playerId, <<[type |-> "PLAY_CARD",
                                    payload |-> Payload(Own(playerId, k), <<>>, <<>>, <<>>,
                                                        position)]>>)
        \/ \E playerId \in Ids, k \in {6, 5}, target \in Tops \cup {<<>>} :
               /\ engine # <<>>
               /\ Send(playerId, <<[type |-> "USE_UTILITY",
                                    payload |-> Payload(Own(playerId, k), <<>>, <<>>, target,
                                                        <<>>)]>>)
        \/ \E playerId \in Ids, type \in {"ATTACK", "USE_SKILL", "USE_ULT"},
              attacker \in Tops, target \in Tops \cup {<<"opp_avatar">>, <<>>} :
               /\ engine # <<>>
               /\ Send(playerId, <<[type |-> type,
                                    payload |-> Payload(<<>>, attacker, <<>>, target, <<>>)]>>)
        \/ \E playerId \in Ids, type \in {"MOVE_CARD", "CONTROL_MOVE"}, k \in {6, 5},
              position \in {<<>>, At(OPP_BACK_ROW), At(OPP_FRONT_ROW),
                            At(PLAYER_FRONT_ROW), At(PLAYER_BACK_ROW)} :
               /\ engine # <<>>
               /\ Send(playerId, <<[type |-> type,
                                    payload |-> Payload(<<>>, <<>>, Own(playerId, k), <<>>,
                                                        position)]>>)
        \/ \E playerId \in Ids :
               /\ engine # <<>>
               /\ Send(playerId, <<[type |-> "DRAW_CARD",
                                    payload |-> Payload(<<>>, <<>>, <<>>, <<>>, <<>>)]>>)
        \/ \E playerId \in Ids :
               /\ engine # <<>>
               /\ engine[1].turn < MaxEngineTurn
               /\ Send(playerId, <<[type |-> "END_TURN",
                                    payload |-> Payload(<<>>, <<>>, <<>>, <<>>, <<>>)]>>)
        \/ \E playerId \in Ids,
              intent \in {<<>>, <<[type |-> "SELECT_TARGET",
                                   payload |-> Payload(<<>>, <<>>, <<>>, <<>>, <<>>)]>>} :
               /\ engine # <<>>
               /\ Send(playerId, intent)

EngineSpec == Started(Skirmish, "p1") /\ [][EngineNext]_vars

(* How many places hold the card instance with this uid: the entries of    *)
(* the hand, deck, graveyard and field of both sides taken together.       *)
Copies(uid) ==
    LET In(cards) == Cardinality({i \in 1..Len(cards) : cards[i].uid = uid})
        Of(entity) == In(entity.hand) + In(entity.deck) + In(entity.gy)
                          + Cardinality({k \in DOMAIN entity.field :
                                            entity.field[k].uid = uid})
    IN  Of(engine[1].players["s1"]) + Of(engine[1].players["s2"])

(* C39: whenever handleIntent returns an error, the match state is exactly *)
(* what it was before the call, the log included.                          *)
C39_ErrorsLeaveStateAlone ==
    [][(engine # <<>> /\ answer' # <<>> /\ answer'[1].error # "") => engine' = engine]_vars

(* An attack by a card on the field with enough action points was refused  *)
(* for its target, after intents that were applied and logged.             *)
C39_Witness ==
    /\ answer # <<>>
    /\ answer[1].error = "Alvo inválido."
    /\ Len(engine[1].logs) >= 2
    /\ \E id \in {"s1", "s2"} :
           /\ engine[1].activePlayerId = id
           /\ \E k \in DOMAIN engine[1].players[id].field :
                  engine[1].players[id].field[k].pa >= 2

(* C40: every card instance created at match creation is held in exactly   *)
(* one place among the hands, decks, graveyards and fields of the match.   *)
C40_EveryCardInOnePlace ==
    engine # <<>> =>
        \A uid \in {<<"s1", k>> : k \in 0..6} \cup {<<"s2", k>> : k \in 7..13} :
            Copies(uid) = 1

(* The last intent applied was USE_UTILITY and the utility card it named   *)
(* is in no hand, deck, graveyard or field.                                *)
C40_Witness ==
    /\ answer # <<>>
    /\ answer[1].error = ""
    /\ answer[1].events[1][1] = "utility"
    /\ Copies(answer[1].events[1][2]) = 0

=============================================================================
